---------------------------- MODULE Spec2Model ----------------------------
(***************************************************************************)
(* Dialogue orchestration engine of the InstaLogic chatbot backend:        *)
(* the session store, the pattern matcher, the router, the four flow       *)
(* state machines and the response enricher of chatbot_orchestrator.py,    *)
(* with the lead formatting and persistence of database_service.py.        *)
(*                                                                         *)
(* Text is modelled as a sequence of whitespace-separated words (tokens).  *)
(* The token SP stands for surrounding whitespace that str.strip()         *)
(* removes.  A regular expression of the source is a sequence of slots,    *)
(* each slot the set of word sequences its alternation admits; \b and \s+  *)
(* are the token boundaries.  No word of the vocabulary holds a pattern    *)
(* word as a proper part.                                                  *)
(***************************************************************************)
EXTENDS Integers, Sequences, FiniteSets, TLC

VARIABLES
    DATABASE_ENABLED, \* module flag of chatbot_orchestrator.py
    sessions,         \* SessionManager.sessions
    leads,            \* rows of table chatbot_leads
    clock,            \* what datetime.now() reads
    turn,             \* the call being answered: operation, query, session id
    prev,             \* SessionManager.sessions as it was before the call
    saved,            \* the lead_data handed to save_lead during the call
    result,           \* what the call returned (or the exception it raised)
    script,           \* scripted runs: the queries still to send, in order
    responses,        \* scripted runs: the results returned so far
    threads,          \* concurrent requests: each request thread's position
    chat_sessions,    \* main.py chat_sessions: the history kept for each issued id
    uuids             \* the values uuid.uuid4() has returned to main.py so far

vars == <<DATABASE_ENABLED, sessions, leads, clock, turn, prev, saved, result,
          script, responses, threads, chat_sessions, uuids>>

-----------------------------------------------------------------------------
(* Bounds of the model *)

\* rows the leads table may hold before the model stops taking turns
MaxLeads == 2
\* largest value of the clock
MaxClock == 1
\* longest text (in words) handed to the enricher as query or as answer
MaxText == 2
\* most rejected e-mail answers in one scripted demo run
MaxRejects == 2

-----------------------------------------------------------------------------
(* Python values *)

None == "None"
EmptyDict == [k \in {} |-> None]
SP == " "
OFFICE == "<office-emoji>"

\* dict.update: keys of u take u's value, every other key keeps d's
DictUpdate(d, u) ==
    [k \in (DOMAIN d) \cup (DOMAIN u) |-> IF k \in DOMAIN u THEN u[k] ELSE d[k]]

\* d[k] = v on a dict
DictSet(d, k, v) == [x \in (DOMAIN d) \cup {k} |-> IF x = k THEN v ELSE d[x]]

\* dict.get(k, default)
DictGet(d, k, default) == IF k \in DOMAIN d THEN d[k] ELSE default

\* one-key dict
Dict1(k, v) == [x \in {k} |-> v]

\* str.lower() on one word
LowerTok(t) ==
    CASE t = "Other" -> "other"
      [] t = "OTHER" -> "other"
      [] t = "Finance" -> "finance"
      [] t = "Healthcare" -> "healthcare"
      [] t = "Jane" -> "jane"
      [] t = "Referral" -> "referral"
      [] t = "LinkedIn" -> "linkedin"
      [] t = "Phone" -> "phone"
      [] t = "Both" -> "both"
      [] t = "Escalate" -> "escalate"
      [] t = "Hiring" -> "hiring"
      [] t = "RFP" -> "rfp"
      [] t = "Demo" -> "demo"
      [] t = "Cancel" -> "cancel"
      [] OTHER -> t

\* str.lower()
Lower(s) == [i \in 1..Len(s) |-> LowerTok(s[i])]

RECURSIVE LStrip(_)
LStrip(s) == IF s # <<>> /\ Head(s) = SP THEN LStrip(Tail(s)) ELSE s

RECURSIVE RStrip(_)
RStrip(s) ==
    IF s # <<>> /\ s[Len(s)] = SP THEN RStrip(SubSeq(s, 1, Len(s) - 1)) ELSE s

\* str.strip()
Strip(s) == RStrip(LStrip(s))

\* sub in s, for a text sub of whole words
Contains(s, sub) ==
    \E i \in 1..(Len(s) - Len(sub) + 1) : SubSeq(s, i, i + Len(sub) - 1) = sub

\* '@' in s and '.' in s, by the characters of each word of the vocabulary
HasAt(s) == \E i \in 1..Len(s) : s[i] \in {"jane@co.com", "jane@co", "a@b"}
HasDot(s) == \E i \in 1..Len(s) : s[i] \in {"jane@co.com", "jane.doe", "c.d"}

-----------------------------------------------------------------------------
(* Pattern matcher *)

Alt(ws) == {<<w>> : w \in ws}
Opt(alts) == alts \cup {<<>>}

\* the pattern's slots from slot k on match the words of s that start at i
RECURSIVE MatchAt(_, _, _, _)
MatchAt(pattern, k, s, i) ==
    IF k > Len(pattern) THEN TRUE
    ELSE \E alt \in pattern[k] :
            /\ i + Len(alt) - 1 <= Len(s)
            /\ SubSeq(s, i, i + Len(alt) - 1) = alt
            /\ MatchAt(pattern, k + 1, s, i + Len(alt))

\* re.search(pattern, s, re.IGNORECASE)
ReSearch(pattern, s) == \E i \in 1..(Len(s) + 1) : MatchAt(pattern, 1, Lower(s), i)

handoff_patterns == <<
    << Alt({"speak", "talk"}), Alt({"to"}), Opt(Alt({"a"})),
       Alt({"human", "person", "agent", "representative"}) >>,
    << Alt({"connect"}), Alt({"me"}), Alt({"to"}),
       Alt({"support", "human", "agent", "someone"}) >>,
    << Alt({"urgent", "emergency", "critical"}), Alt({"issue", "problem", "matter"}) >>,
    << Alt({"need"}), Alt({"immediate", "urgent"}), Alt({"help"}) >>,
    << Alt({"escalate"}) >>,
    << Alt({"human"}), Alt({"agent", "support"}) >>
  >>

request_demo_patterns == <<
    << Alt({"book", "request", "schedule", "want", "need", "get"}), Opt(Alt({"a"})),
       Alt({"demo", "demonstration", "poc"}) \cup {<<"proof", "of", "concept">>} >>,
    << Alt({"show"}), Alt({"me"}), Opt(Alt({"a"})), Alt({"demo"}) >>,
    << Alt({"can"}), Alt({"i"}), Alt({"see", "get", "have"}), Opt(Alt({"a"})),
       Alt({"demo"}) >>
  >>

request_career_patterns == <<
    << Alt({"apply", "submit", "upload", "send"}), Opt(Alt({"my"})),
       Alt({"resume", "cv", "application"}) >>,
    << Opt({<<"are", "you">>}), Alt({"hiring"}) >>,
    << Alt({"job"}), Alt({"opening", "opportunity", "application", "position"}) >>,
    << Alt({"career"}), Alt({"opportunity", "page"}) >>,
    << Alt({"how"}), Alt({"do", "can"}), Alt({"i"}), Alt({"apply"}) >>
  >>

upload_rfp_patterns == <<
    << Alt({"upload", "submit", "send", "share"}), Opt(Alt({"an", "my", "our"})),
       Alt({"rfp"}) >>,
    << Alt({"have", "got"}), Opt(Alt({"an"})), Alt({"rfp"}) >>,
    << Alt({"proposal"}), Alt({"request"}) >>,
    << Alt({"request"}), Alt({"for"}), Alt({"proposal"}) >>
  >>

request_contact_patterns == <<
    << Alt({"contact", "call"}) \cup {<<"speak", "to">>, <<"talk", "to">>},
       Alt({"sales", "team", "someone"}) >>,
    << Alt({"schedule"}), Opt(Alt({"a"})), Alt({"call", "meeting"}) >>,
    << Alt({"get"}), Alt({"in"}), Alt({"touch"}) >>
  >>

\* the dict of intents, in insertion order
transactional_patterns == <<
    [intent |-> "request_demo", patterns |-> request_demo_patterns],
    [intent |-> "request_career", patterns |-> request_career_patterns],
    [intent |-> "upload_rfp", patterns |-> upload_rfp_patterns],
    [intent |-> "request_contact", patterns |-> request_contact_patterns]
  >>

AnyMatch(patterns, s) == \E j \in 1..Len(patterns) : ReSearch(patterns[j], s)

_detect_handoff(query) == AnyMatch(handoff_patterns, query)

RECURSIVE FirstIntent(_, _)
FirstIntent(k, query) ==
    IF k > Len(transactional_patterns) THEN None
    ELSE IF AnyMatch(transactional_patterns[k].patterns, query)
         THEN transactional_patterns[k].intent
         ELSE FirstIntent(k + 1, query)

\* mutant: the last intent of the dict that matches wins
_detect_transactional_intent_last(query) ==
    LET matching == {k \in 1..Len(transactional_patterns) :
                        AnyMatch(transactional_patterns[k].patterns, query)}
    IN  IF matching = {} THEN None
        ELSE transactional_patterns[CHOOSE k \in matching :
                                        \A j \in matching : j <= k].intent

_detect_transactional_intent(query) == FirstIntent(1, query)

-----------------------------------------------------------------------------
(* SessionManager *)

\* the state of session_id in S, None when there is no such session yet
StateOf(S, session_id) == IF session_id \in DOMAIN S THEN S[session_id].state ELSE None

NewSession(now) ==
    [state |-> None, data |-> EmptyDict, created_at |-> now, last_updated |-> now]

\* mutant: every call creates the session anew
get_session_always_new(S, session_id, now) ==
    [x \in (DOMAIN S) \cup {session_id} |->
        IF x = session_id THEN NewSession(now) ELSE S[x]]

\* the sessions map after get_session(session_id); the session is S'[session_id]
get_session(S, session_id, now) ==
    IF session_id \notin DOMAIN S
    THEN [x \in (DOMAIN S) \cup {session_id} |->
            IF x = session_id THEN NewSession(now) ELSE S[x]]
    ELSE S

\* mutant: the fields passed replace the fields map
update_session_replace(S, session_id, state, data, now) ==
    LET S1 == get_session(S, session_id, now)
    IN  [S1 EXCEPT ![session_id] =
            [state |-> state,
             data |-> data,
             created_at |-> S1[session_id].created_at,
             last_updated |-> now]]

update_session(S, session_id, state, data, now) ==
    LET S1 == get_session(S, session_id, now)
    IN  [S1 EXCEPT ![session_id] =
            [state |-> state,
             data |-> DictUpdate(S1[session_id].data, data),
             created_at |-> S1[session_id].created_at,
             last_updated |-> now]]

\* mutant: clearing resets the state and keeps the fields
clear_session_state_keeps_fields(S, session_id) ==
    IF session_id \in DOMAIN S
    THEN [S EXCEPT ![session_id].state = None]
    ELSE S

\* mutant: clearing deletes the session
clear_session_state_delete(S, session_id) ==
    [x \in (DOMAIN S) \ {session_id} |-> S[x]]

\* mutant: clearing resets every session of the store
clear_session_state_all(S, session_id) ==
    [x \in DOMAIN S |->
        [state |-> None, data |-> EmptyDict, created_at |-> S[x].created_at,
         last_updated |-> S[x].last_updated]]

clear_session_state(S, session_id) ==
    IF session_id \in DOMAIN S
    THEN [S EXCEPT ![session_id] =
            [state |-> None,
             data |-> EmptyDict,
             created_at |-> S[session_id].created_at,
             last_updated |-> S[session_id].last_updated]]
    ELSE S

-----------------------------------------------------------------------------
(* DatabaseService *)

format_demo_lead(demo_data, ticket_id) ==
    [type |-> "DEMO_REQUEST",
     name |-> DictGet(demo_data, "name", <<"N/A">>),
     contact |-> <<DictGet(demo_data, "email", <<"N/A">>),
                   DictGet(demo_data, "phone", <<"N/A">>)>>,
     info |-> <<DictGet(demo_data, "industry", <<"N/A">>),
                DictGet(demo_data, "preferred_date", <<"N/A">>),
                DictGet(demo_data, "referral_source", <<"N/A">>)>>,
     ticket_id |-> ticket_id,
     metadata |-> [k \in {"industry", "email", "phone", "referral_source",
                          "preferred_date"} |-> DictGet(demo_data, k, <<None>>)]]

format_handoff_lead(query, ticket_id) ==
    [type |-> "HUMAN_HANDOFF",
     name |-> <<"Escalated", "User">>,
     contact |-> <<"Via", "Chat">>,
     info |-> query,
     ticket_id |-> ticket_id,
     metadata |-> [k \in {"query", "priority"} |->
                     IF k = "query" THEN query ELSE <<"high">>]]

\* the formatters DatabaseService defines; any other format_* attribute is
\* an AttributeError at the call
LeadFormatters == {"format_demo_lead", "format_handoff_lead"}

\* the table after save_lead(lead_data): the INSERT either commits a row
\* (status takes the column default) or fails, is logged and returns None
save_lead(table, lead_data, db_ok) ==
    IF db_ok
    THEN Append(table, [type |-> lead_data.type, ticket_id |-> lead_data.ticket_id,
                        status |-> "NEW"])
    ELSE table

-----------------------------------------------------------------------------
(* ChatbotOrchestrator: results *)

valid_statuses == {"NEW", "CONTACTED", "IN_PROGRESS", "CLOSED"}

\* DatabaseService.update_lead_status: the UPDATE by id; rowcount > 0, or
\* False when no row has the id or the statement fails
update_lead_status(table, lead_id, status, db_ok) ==
    IF db_ok /\ lead_id \in 1..Len(table)
    THEN [leads |-> [table EXCEPT ![lead_id].status = status], success |-> TRUE]
    ELSE [leads |-> table, success |-> FALSE]

HTTPException(status_code) == [type |-> "HTTPException", status_code |-> status_code]

\* mutant: the endpoint hands any status to the database
main_update_lead_status_unchecked(table, lead_id, status, db_ok) ==
    LET u == update_lead_status(table, lead_id, status, db_ok)
    IN  IF ~u.success
        THEN [leads |-> u.leads, result |-> HTTPException(404)]
        ELSE [leads |-> u.leads, result |-> [type |-> "ok", success |-> TRUE]]

\* PUT /api/leads/{lead_id}/status of main.py
main_update_lead_status(table, lead_id, status, db_ok) ==
    IF status \notin valid_statuses
    THEN [leads |-> table, result |-> HTTPException(400)]
    ELSE LET u == update_lead_status(table, lead_id, status, db_ok)
         IN  IF ~u.success
             THEN [leads |-> u.leads, result |-> HTTPException(404)]
             ELSE [leads |-> u.leads, result |-> [type |-> "ok", success |-> TRUE]]

\* a world is what a handler reads and leaves behind
World(S, L, V, now) == [sessions |-> S, leads |-> L, saved |-> V, now |-> now]

\* a handler's outcome: the world it leaves and the dict it returns
Out(w, S, L, V, r) ==
    [sessions |-> S, leads |-> L, saved |-> V, now |-> w.now, result |-> r]

\* an exception leaving the handler
Raised(exc) == [type |-> "raised", raised |-> exc]

Button(label, action) == [label |-> label, action |-> action]

Step(flow, response, rich_payload, metadata) ==
    [type |-> "transaction", flow |-> flow, response |-> response,
     rich_payload |-> rich_payload, metadata |-> metadata]

\* mutant: the completion response leaves the ticket id out
Completion_without_ticket(flow, response, action, ticket_id, data_key, data, buttons, metadata) ==
    [k \in {"type", "flow", "response", "action", data_key, "rich_payload",
            "metadata"} |->
        CASE k = "type" -> "transaction"
          [] k = "flow" -> flow
          [] k = "response" -> response
          [] k = "action" -> action
          [] k = data_key -> data
          [] k = "rich_payload" -> [buttons |-> buttons]
          [] k = "metadata" -> metadata]

Completion(flow, response, action, ticket_id, data_key, data, buttons, metadata) ==
    [k \in {"type", "flow", "response", "action", "ticket_id", data_key,
            "rich_payload", "metadata"} |->
        CASE k = "type" -> "transaction"
          [] k = "flow" -> flow
          [] k = "response" -> response
          [] k = "action" -> action
          [] k = "ticket_id" -> ticket_id
          [] k = data_key -> data
          [] k = "rich_payload" -> [buttons |-> buttons]
          [] k = "metadata" -> metadata]

\* the lead, if DATABASE_ENABLED: the table and the calls made afterwards
SaveIfEnabled(w, enabled, lead_data, db_ok) ==
    IF enabled
    THEN [leads |-> save_lead(w.leads, lead_data, db_ok),
          saved |-> Append(w.saved, lead_data)]
    ELSE [leads |-> w.leads, saved |-> w.saved]

_escalate_to_human(w, query, session_id, env) ==
    LET db == SaveIfEnabled(w, env.enabled,
                            format_handoff_lead(query, env.ticket_id), env.db_ok)
    IN  Out(w, clear_session_state(w.sessions, session_id), db.leads, db.saved,
            [type |-> "handoff",
             response |-> <<"handoff">>,
             action |-> "escalate_to_human",
             ticket_id |-> env.ticket_id,
             metadata |-> [escalation_reason |-> "user_request",
                           original_query |-> query, priority |-> "high"],
             rich_payload |->
                [buttons |-> <<Button("Call Us", "show_phone"),
                               Button("Email Us", "show_email")>>,
                 message |-> <<"escalation_ticket", env.ticket_id>>]])

-----------------------------------------------------------------------------
(* ChatbotOrchestrator: the demo flow *)

\* '<office emoji> Other' in text or text.lower() == 'other'
IsOther(text) == Contains(text, <<OFFICE, "Other">>) \/ Lower(text) = <<"other">>

\* mutant: the validation looks for '@' only
ValidEmail_at_only(email) == HasAt(email)

\* the basic e-mail validation of the demo flow
ValidEmail(email) == HasAt(email) /\ HasDot(email)

\* mutant: every step also persists what it has collected so far
Advance_persisting(w, session_id, state, data, r) ==
    Out(w, update_session(w.sessions, session_id, state, data, w.now),
        save_lead(w.leads, [type |-> "DEMO_REQUEST", ticket_id |-> "1A2B3C4D"], TRUE),
        w.saved, r)

\* a step that stores data, moves to state and prompts
Advance(w, session_id, state, data, r) ==
    Out(w, update_session(w.sessions, session_id, state, data, w.now),
        w.leads, w.saved, r)

industry_buttons ==
    <<Button("Government", "select_industry"), Button("Finance", "select_industry"),
      Button("Retail", "select_industry"), Button("Other", "select_industry")>>

referral_buttons ==
    <<Button("Google Search", "select_referral"), Button("Referral", "select_referral"),
      Button("Social Media", "select_referral"),
      Button("Advertisement", "select_referral"), Button("Other", "select_referral")>>

DemoMeta(step) == [step |-> step, total_steps |-> 7]

demo_fallback ==
    [type |-> "error",
     response |-> <<"demo_went_wrong">>,
     rich_payload |-> [buttons |-> <<Button("Start Demo Request", "start_demo_flow"),
                                     Button("Cancel", "cancel_flow")>>]]

\* mutant: the last answer is not written into the collected data
demo_complete_without_date(w, S, query, session_id, env) ==
    LET session_data == S[session_id].data
        db == SaveIfEnabled(w, env.enabled,
                            format_demo_lead(session_data, env.ticket_id), env.db_ok)
    IN  Out(w, clear_session_state(S, session_id), db.leads, db.saved,
            Completion("demo", <<"demo_confirmed", env.ticket_id>>, "demo_confirmed",
                       env.ticket_id, "demo_data", session_data,
                       <<Button("View Services", "open_link"),
                         Button("Case Studies", "open_link")>>,
                       [step |-> 7, total_steps |-> 7, completed |-> TRUE]))

\* step 7 of the demo flow
demo_complete(w, S, query, session_id, env) ==
    LET session_data == DictSet(S[session_id].data, "preferred_date", Strip(query))
        db == SaveIfEnabled(w, env.enabled,
                            format_demo_lead(session_data, env.ticket_id), env.db_ok)
    IN  Out(w, clear_session_state(S, session_id), db.leads, db.saved,
            Completion("demo", <<"demo_confirmed", env.ticket_id>>, "demo_confirmed",
                       env.ticket_id, "demo_data", session_data,
                       <<Button("View Services", "open_link"),
                         Button("Case Studies", "open_link")>>,
                       [step |-> 7, total_steps |-> 7, completed |-> TRUE]))

\* step 1: start the flow, ask for the industry
demo_start_step(w, session_id, answer) ==
    Advance(w, session_id, "demo_awaiting_industry", EmptyDict,
            Step("demo", <<"ask_industry">>, [buttons |-> industry_buttons],
                 DemoMeta(1)))

\* step 2: the industry, or the detour on "Other"
demo_industry_step(w, session_id, answer) ==
    IF IsOther(answer)
    THEN Advance(w, session_id, "demo_awaiting_custom_industry", EmptyDict,
                 Step("demo", <<"ask_custom_industry">>, [input_type |-> "text"],
                      DemoMeta(2)))
    ELSE Advance(w, session_id, "demo_awaiting_name", Dict1("industry", answer),
                 Step("demo", <<"ask_name">>, [input_type |-> "text"], DemoMeta(2)))

\* mutant: the free-text industry is stored under a key of its own
demo_custom_industry_own_key(w, session_id, answer) ==
    Advance(w, session_id, "demo_awaiting_name", Dict1("custom_industry", answer),
            Step("demo", <<"ask_name">>, [input_type |-> "text"], DemoMeta(2)))

\* step 2b: the industry given as free text
demo_custom_industry_step(w, session_id, answer) ==
    Advance(w, session_id, "demo_awaiting_name", Dict1("industry", answer),
            Step("demo", <<"ask_name">>, [input_type |-> "text"], DemoMeta(2)))

\* mutant: the name step writes a tag of the career flow
demo_name_step_career_tag(w, session_id, answer) ==
    Advance(w, session_id, "career_awaiting_email", Dict1("name", answer),
            Step("demo", <<"ask_email">>, [input_type |-> "email"], DemoMeta(3)))

\* step 3: the name
demo_name_step(w, session_id, answer) ==
    Advance(w, session_id, "demo_awaiting_email", Dict1("name", answer),
            Step("demo", <<"ask_email">>, [input_type |-> "email"], DemoMeta(3)))

\* step 4: the e-mail, asked again when it is not valid
demo_email_step(w, session_id, answer) ==
    IF ~ValidEmail(answer)
    THEN Out(w, w.sessions, w.leads, w.saved,
             Step("demo", <<"ask_valid_email">>, [input_type |-> "email"],
                  [step |-> 3, total_steps |-> 7, error |-> TRUE]))
    ELSE Advance(w, session_id, "demo_awaiting_phone", Dict1("email", answer),
                 Step("demo", <<"ask_phone">>, [input_type |-> "tel"], DemoMeta(4)))

\* step 5: the phone number
demo_phone_step(w, session_id, answer) ==
    Advance(w, session_id, "demo_awaiting_referral", Dict1("phone", answer),
            Step("demo", <<"ask_referral">>, [buttons |-> referral_buttons],
                 DemoMeta(5)))

\* step 6: the referral source, or the detour on "Other"
demo_referral_step(w, session_id, answer) ==
    IF IsOther(answer)
    THEN Advance(w, session_id, "demo_awaiting_custom_referral", EmptyDict,
                 Step("demo", <<"ask_custom_referral">>, [input_type |-> "text"],
                      DemoMeta(5)))
    ELSE Advance(w, session_id, "demo_awaiting_date", Dict1("referral_source", answer),
                 Step("demo", <<"ask_date">>, [input_type |-> "datetime"],
                      DemoMeta(6)))

\* mutant: the free-text step opens the detour again on "Other"
demo_custom_referral_detours(w, session_id, answer) ==
    demo_referral_step(w, session_id, answer)

\* step 6b: the referral source given as free text
demo_custom_referral_step(w, session_id, answer) ==
    Advance(w, session_id, "demo_awaiting_date", Dict1("referral_source", answer),
            Step("demo", <<"ask_date">>, [input_type |-> "datetime"], DemoMeta(6)))

\* the branch of handle_demo_flow for the state tag it read from the session
demo_branch(current_state, w1, query, session_id, env) ==
    LET S == w1.sessions
        w == w1
        answer == Strip(query)
    IN  CASE current_state = None \/ current_state = "demo_start" ->
                demo_start_step(w1, session_id, answer)
          [] current_state = "demo_awaiting_industry" ->
                demo_industry_step(w1, session_id, answer)
          [] current_state = "demo_awaiting_custom_industry" ->
                demo_custom_industry_step(w1, session_id, answer)
          [] current_state = "demo_awaiting_name" ->
                demo_name_step(w1, session_id, answer)
          [] current_state = "demo_awaiting_email" ->
                demo_email_step(w1, session_id, answer)
          [] current_state = "demo_awaiting_phone" ->
                demo_phone_step(w1, session_id, answer)
          [] current_state = "demo_awaiting_referral" ->
                demo_referral_step(w1, session_id, answer)
          [] current_state = "demo_awaiting_custom_referral" ->
                demo_custom_referral_step(w1, session_id, answer)
          [] current_state = "demo_awaiting_date" ->
                demo_complete(w1, S, query, session_id, env)
          [] OTHER -> Out(w1, S, w.leads, w.saved, demo_fallback)

handle_demo_flow(w, query, session_id, env) ==
    LET S == get_session(w.sessions, session_id, w.now)
    IN  demo_branch(S[session_id].state, [w EXCEPT !.sessions = S], query,
                    session_id, env)

-----------------------------------------------------------------------------
(* ChatbotOrchestrator: the career, RFP and contact flows *)

\* a completion whose lead formatter DatabaseService may lack: the answer is
\* written into the live session dict, then the formatter is looked up
complete_with_lead(w, S, session_id, env, key, answer, formatter, lead_data, r) ==
    LET S2 == [S EXCEPT ![session_id].data = DictSet(@, key, answer)]
    IN  IF env.enabled /\ formatter \notin LeadFormatters
        THEN Out(w, S2, w.leads, w.saved, Raised("AttributeError"))
        ELSE LET db == SaveIfEnabled(w, env.enabled, lead_data, env.db_ok)
             IN  Out(w, clear_session_state(S2, session_id), db.leads, db.saved, r)

\* what a function returns when no branch of it returns
ReturnsNone == [type |-> "returned_none"]

\* the branch of handle_career_flow for the state tag it read from the session
career_branch(current_state, w1, query, session_id, env) ==
    LET S == w1.sessions
        w == w1
        answer == Strip(query)
        session_data == DictSet(S[session_id].data, "position", answer)
    IN  CASE current_state = None ->
                Advance(w1, session_id, "career_awaiting_name", EmptyDict,
                        Step("career", <<"ask_full_name">>, [input_type |-> "text"],
                             [step |-> 1, total_steps |-> 4]))
          [] current_state = "career_awaiting_name" ->
                Advance(w1, session_id, "career_awaiting_email", Dict1("name", answer),
                        Step("career", <<"ask_email">>, [input_type |-> "email"],
                             [step |-> 2, total_steps |-> 4]))
          [] current_state = "career_awaiting_email" ->
                Advance(w1, session_id, "career_awaiting_position",
                        Dict1("email", answer),
                        Step("career", <<"ask_position">>,
                             [buttons |-> <<Button("Data Analyst", "select_position"),
                                            Button("Software Engineer", "select_position"),
                                            Button("BI Consultant", "select_position"),
                                            Button("Other", "select_position")>>],
                             [step |-> 3, total_steps |-> 4]))
          [] current_state = "career_awaiting_position" ->
                complete_with_lead(w1, S, session_id, env, "position", answer,
                    "format_career_lead",
                    [type |-> "CAREER_APPLICATION", ticket_id |-> env.ticket_id],
                    Completion("career", <<"application_received", answer, env.ticket_id>>,
                               "career_submitted", env.ticket_id, "career_data",
                               session_data,
                               <<Button("Upload Resume", "show_resume_form"),
                                 Button("View Careers Page", "open_link")>>,
                               [step |-> 4, total_steps |-> 4, completed |-> TRUE]))
          [] OTHER -> Out(w1, S, w.leads, w.saved, ReturnsNone)

handle_career_flow(w, query, session_id, env) ==
    LET S == get_session(w.sessions, session_id, w.now)
    IN  career_branch(S[session_id].state, [w EXCEPT !.sessions = S], query,
                  session_id, env)

\* the branch of handle_rfp_flow for the state tag it read from the session
rfp_branch(current_state, w1, query, session_id, env) ==
    LET S == w1.sessions
        w == w1
        answer == Strip(query)
        session_data == DictSet(S[session_id].data, "brief", answer)
    IN  CASE current_state = None ->
                Advance(w1, session_id, "rfp_awaiting_company", EmptyDict,
                        Step("rfp", <<"ask_company">>, [input_type |-> "text"],
                             [step |-> 1, total_steps |-> 4]))
          [] current_state = "rfp_awaiting_company" ->
                Advance(w1, session_id, "rfp_awaiting_contact", Dict1("company", answer),
                        Step("rfp", <<"ask_email">>, [input_type |-> "email"],
                             [step |-> 2, total_steps |-> 4]))
          [] current_state = "rfp_awaiting_contact" ->
                Advance(w1, session_id, "rfp_awaiting_brief", Dict1("email", answer),
                        Step("rfp", <<"ask_brief">>, [input_type |-> "textarea"],
                             [step |-> 3, total_steps |-> 4]))
          [] current_state = "rfp_awaiting_brief" ->
                complete_with_lead(w1, S, session_id, env, "brief", answer,
                    "format_rfp_lead",
                    [type |-> "RFP_UPLOAD", ticket_id |-> env.ticket_id],
                    Completion("rfp", <<"rfp_received", env.ticket_id>>,
                               "rfp_submitted", env.ticket_id, "rfp_data", session_data,
                               <<Button("Email RFP Document", "open_email"),
                                 Button("Schedule Call", "start_contact_flow")>>,
                               [step |-> 4, total_steps |-> 4, completed |-> TRUE]))
          [] OTHER -> Out(w1, S, w.leads, w.saved, ReturnsNone)

handle_rfp_flow(w, query, session_id, env) ==
    LET S == get_session(w.sessions, session_id, w.now)
    IN  rfp_branch(S[session_id].state, [w EXCEPT !.sessions = S], query,
                  session_id, env)

\* mutant: an unrecognized method falls back to the phone rendering
contact_info_fallback_phone(method) ==
    CASE method = <<"email">> -> "info_email"
      [] method = <<"phone">> -> "info_phone"
      [] method = <<"both">> -> "info_email_and_phone"
      [] OTHER -> "info_phone"

\* the contact-information string of the confirmation
contact_info(method) ==
    CASE method = <<"email">> -> "info_email"
      [] method = <<"phone">> -> "info_phone"
      [] method = <<"both">> -> "info_email_and_phone"
      [] OTHER -> "info_email"

\* the branch of handle_contact_flow for the state tag it read from the session
contact_branch(current_state, w1, query, session_id, env) ==
    LET S == w1.sessions
        w == w1
        method == Lower(Strip(query))
        session_data == S[session_id].data
    IN  CASE current_state = None ->
                Advance(w1, session_id, "contact_awaiting_name", EmptyDict,
                        Step("contact", <<"ask_name">>, [input_type |-> "text"],
                             [step |-> 1, total_steps |-> 3]))
          [] current_state = "contact_awaiting_name" ->
                Advance(w1, session_id, "contact_awaiting_method",
                        Dict1("name", Strip(query)),
                        Step("contact", <<"ask_method">>,
                             [buttons |-> <<Button("Email", "select_contact_method"),
                                            Button("Phone", "select_contact_method"),
                                            Button("Both", "select_contact_method")>>],
                             [step |-> 2, total_steps |-> 3]))
          [] current_state = "contact_awaiting_method" ->
                Out(w1, clear_session_state(S, session_id), w.leads, w.saved,
                    Completion("contact",
                               <<"contact_received", env.ticket_id, contact_info(method)>>,
                               "contact_submitted", env.ticket_id, "contact_data",
                               session_data,
                               <<Button("Visit Website", "open_link"),
                                 Button("View Services", "open_link")>>,
                               [step |-> 3, total_steps |-> 3, completed |-> TRUE]))
          [] OTHER -> Out(w1, S, w.leads, w.saved, ReturnsNone)

handle_contact_flow(w, query, session_id, env) ==
    LET S == get_session(w.sessions, session_id, w.now)
    IN  contact_branch(S[session_id].state, [w EXCEPT !.sessions = S], query,
                  session_id, env)

-----------------------------------------------------------------------------
(* ChatbotOrchestrator: the response enricher *)

\* the single-word keywords that are substrings of word t
SubstringsOf(t) ==
    CASE t = "jobs" -> {"job"}
      [] t = "careers" -> {"career"}
      [] t = "services" -> {"service"}
      [] t = "solutions" -> {"solution"}
      [] t = "demonstration" -> {"demo", "demonstration"}
      [] t = "projects" -> {"project"}
      [] t = "prices" -> {"price"}
      [] t = "tools" -> {"tool"}
      [] OTHER -> {t}

\* keyword in text, for a keyword of one word or of several
KeywordIn(keyword, text) ==
    IF Len(keyword) = 1
    THEN \E i \in 1..Len(text) : keyword[1] \in SubstringsOf(text[i])
    ELSE Contains(text, keyword)

Words(ws) == {<<x>> : x \in ws}

topic_keywords ==
    [careers |-> Words({"job", "career", "hiring", "apply", "resume", "position",
                        "opening"}) \cup {<<"work", "at">>},
     demo |-> Words({"demo", "demonstration", "poc", "trial", "sandbox"})
                \cup {<<"proof", "of", "concept">>},
     services |-> Words({"service", "offering", "capability", "solution", "provide",
                         "deliver"}),
     case_studies |-> Words({"project"})
                \cup {<<"case", "study">>, <<"case", "studies">>, <<"past", "work">>,
                      <<"client", "example">>},
     pricing |-> Words({"price", "cost", "pricing", "budget", "estimate", "quotation"}),
     contact |-> Words({"contact", "reach", "phone", "email", "address", "location",
                        "office"}),
     technical |-> Words({"tool", "technology", "framework", "database", "integration",
                          "api"}),
     procurement |-> Words({"rfp", "proposal", "tender", "procurement", "bid"})]

careers_buttons ==
    <<Button("Upload Resume", "show_resume_form"),
      Button("View Open Positions", "open_link")>>
demo_buttons ==
    <<Button("Request Demo", "start_demo_flow"), Button("Request PoC", "start_demo_flow")>>
services_buttons ==
    <<Button("View All Services", "open_link"), Button("Request Demo", "start_demo_flow"),
      Button("Contact Sales", "start_contact_flow")>>
case_studies_buttons ==
    <<Button("View Case Studies", "open_link"), Button("Request Demo", "start_demo_flow")>>
pricing_buttons ==
    <<Button("Get Quote", "start_contact_flow"),
      Button("Request Estimate", "start_demo_flow")>>
contact_buttons ==
    <<Button("Schedule Call", "start_contact_flow"), Button("Contact Us", "open_link")>>
procurement_buttons ==
    <<Button("Upload RFP", "start_rfp_flow"), Button("Request NDA", "start_contact_flow")>>
default_buttons ==
    <<Button("View Services", "open_link"), Button("Request Demo", "start_demo_flow"),
      Button("Contact Sales", "start_contact_flow")>>

careers_message == <<"Interested", "in", "joining", "our", "team?">>

\* the topics whose keywords appear in the lower-cased query + ' ' + answer
detected_topics(kb_response, user_query) ==
    LET combined_text == Lower(user_query \o kb_response)
    IN  {topic \in DOMAIN topic_keywords :
            \E keyword \in topic_keywords[topic] : KeywordIn(keyword, combined_text)}

\* buttons.extend(bs) if topic was detected
ExtendIf(buttons, topics, topic, bs) ==
    IF topic \in topics THEN buttons \o bs ELSE buttons

\* mutant: the demo buttons are added before the careers buttons
topic_buttons_demo_first(topics) ==
    LET b1 == ExtendIf(<<>>, topics, "demo", demo_buttons)
        b2 == ExtendIf(b1, topics, "careers", careers_buttons)
        b3 == ExtendIf(b2, topics, "services", services_buttons)
        b4 == ExtendIf(b3, topics, "case_studies", case_studies_buttons)
        b5 == ExtendIf(b4, topics, "pricing", pricing_buttons)
        b6 == ExtendIf(b5, topics, "contact", contact_buttons)
    IN  ExtendIf(b6, topics, "procurement", procurement_buttons)

\* the accumulated list, before the default and the cut
topic_buttons(topics) ==
    LET b1 == ExtendIf(<<>>, topics, "careers", careers_buttons)
        b2 == ExtendIf(b1, topics, "demo", demo_buttons)
        b3 == ExtendIf(b2, topics, "services", services_buttons)
        b4 == ExtendIf(b3, topics, "case_studies", case_studies_buttons)
        b5 == ExtendIf(b4, topics, "pricing", pricing_buttons)
        b6 == ExtendIf(b5, topics, "contact", contact_buttons)
    IN  ExtendIf(b6, topics, "procurement", procurement_buttons)

\* mutant: the list is returned uncut
FirstN_uncut(buttons, n) == buttons

\* buttons[:n]
FirstN(buttons, n) == SubSeq(buttons, 1, IF Len(buttons) < n THEN Len(buttons) ELSE n)

\* the cap of enrich_response on the number of buttons
ButtonLimit == 4

\* mutant: the general buttons are added only when no topic at all was detected
enrich_response_default_without_topic(kb_response, user_query) ==
    LET topics == detected_topics(kb_response, user_query)
        found == topic_buttons(topics)
        buttons == IF topics = {} THEN default_buttons ELSE found
    IN  [buttons |-> FirstN(buttons, ButtonLimit),
         additional_message |->
            IF "careers" \in topics THEN careers_message ELSE <<None>>]

enrich_response(kb_response, user_query) ==
    LET topics == detected_topics(kb_response, user_query)
        found == topic_buttons(topics)
        buttons == IF found = <<>> THEN default_buttons ELSE found
    IN  [buttons |-> FirstN(buttons, ButtonLimit),
         additional_message |->
            IF "careers" \in topics THEN careers_message ELSE <<None>>]

-----------------------------------------------------------------------------
(* ChatbotOrchestrator: the knowledge query and the router *)

\* BedrockClient.  upstream is what AWS does with the two requests of a turn:
\* the retrieval answers with chunks or fails, the model invocation answers
\* with text, answers with no content, or fails.

\* "I apologize, but I couldn't generate a response. Please try again."
apology == <<"sorry">>

\* retrieval errors are caught, logged and become an empty result
retrieve_from_knowledge_base(upstream) ==
    IF upstream.retrieval = "error"
    THEN [sources |-> <<>>, context |-> <<>>]
    ELSE [sources |-> upstream.sources, context |-> upstream.context]

\* client.invoke_model is called with no handler around it
invoke_claude(upstream) ==
    CASE upstream.generation = "error" -> Raised("ClientError")
      [] upstream.generation = "empty" -> [type |-> "returned", text |-> apology]
      [] OTHER -> [type |-> "returned", text |-> upstream.text]

generate_response_with_kb(upstream) ==
    LET kb_results == retrieve_from_knowledge_base(upstream)
        response == invoke_claude(upstream)
    IN  IF response.type = "raised"
        THEN response
        ELSE [type |-> "returned",
              response |-> response.text,
              sources |-> kb_results.sources,
              context_used |-> kb_results.context # <<>>]

\* mutant: only the query is enriched, not the answer
_query_knowledge_base_query_only(w, query, session_id, env) ==
    LET kb_result == generate_response_with_kb(env.kb)
    IN  IF kb_result.type = "raised"
        THEN Out(w, w.sessions, w.leads, w.saved, kb_result)
        ELSE Out(w, w.sessions, w.leads, w.saved,
                 [type |-> "knowledge",
                  response |-> kb_result.response,
                  sources |-> kb_result.sources,
                  rich_payload |-> enrich_response(<<>>, query),
                  metadata |-> [kb_used |-> kb_result.context_used,
                                source_count |-> Len(kb_result.sources)]])

\* kb is what BedrockClient.generate_response_with_kb returned
_query_knowledge_base(w, query, session_id, env) ==
    LET kb_result == generate_response_with_kb(env.kb)
    IN  IF kb_result.type = "raised"
        THEN Out(w, w.sessions, w.leads, w.saved, kb_result)
        ELSE Out(w, w.sessions, w.leads, w.saved,
                 [type |-> "knowledge",
                  response |-> kb_result.response,
                  sources |-> kb_result.sources,
                  rich_payload |-> enrich_response(kb_result.response, query),
                  metadata |-> [kb_used |-> kb_result.context_used,
                                source_count |-> Len(kb_result.sources)]])

\* str.startswith on a state tag
StartsWith(state, prefix) ==
    CASE prefix = "demo_" ->
            state \in {"demo_start", "demo_awaiting_industry",
                       "demo_awaiting_custom_industry", "demo_awaiting_name",
                       "demo_awaiting_email", "demo_awaiting_phone",
                       "demo_awaiting_referral", "demo_awaiting_custom_referral",
                       "demo_awaiting_date"}
      [] prefix = "career_" ->
            state \in {"career_awaiting_name", "career_awaiting_email",
                       "career_awaiting_position"}
      [] prefix = "rfp_" ->
            state \in {"rfp_awaiting_company", "rfp_awaiting_contact",
                       "rfp_awaiting_brief"}
      [] prefix = "contact_" ->
            state \in {"contact_awaiting_name", "contact_awaiting_method"}
      [] OTHER -> FALSE

\* mutant: the career and RFP intents start each other's flow
route_by_intent_swapped(w, query, session_id, env) ==
    LET intent == _detect_transactional_intent(Strip(Lower(query)))
    IN  CASE intent = "request_demo" -> handle_demo_flow(w, query, session_id, env)
          [] intent = "request_career" -> handle_rfp_flow(w, query, session_id, env)
          [] intent = "upload_rfp" -> handle_career_flow(w, query, session_id, env)
          [] intent = "request_contact" -> handle_contact_flow(w, query, session_id, env)
          [] OTHER -> _query_knowledge_base(w, query, session_id, env)

\* priorities 3 and 4 of the router
route_by_intent(w, query, session_id, env) ==
    LET intent == _detect_transactional_intent(Strip(Lower(query)))
    IN  CASE intent = "request_demo" -> handle_demo_flow(w, query, session_id, env)
          [] intent = "request_career" -> handle_career_flow(w, query, session_id, env)
          [] intent = "upload_rfp" -> handle_rfp_flow(w, query, session_id, env)
          [] intent = "request_contact" -> handle_contact_flow(w, query, session_id, env)
          [] OTHER -> _query_knowledge_base(w, query, session_id, env)

\* mutant: the word 'cancel' ends an active flow
route_by_state_cancel(w, query, session_id, env) ==
    LET S == get_session(w.sessions, session_id, w.now)
        w1 == [w EXCEPT !.sessions = S]
        state == S[session_id].state
    IN  IF state # None /\ Strip(Lower(query)) = <<"cancel">>
        THEN Out(w1, clear_session_state(S, session_id), w.leads, w.saved,
                 [type |-> "transaction", response |-> <<"cancelled">>,
                  metadata |-> [cancelled |-> TRUE]])
        ELSE IF state # None /\ StartsWith(state, "demo_")
        THEN handle_demo_flow(w1, query, session_id, env)
        ELSE IF state # None /\ StartsWith(state, "career_")
        THEN handle_career_flow(w1, query, session_id, env)
        ELSE IF state # None /\ StartsWith(state, "rfp_")
        THEN handle_rfp_flow(w1, query, session_id, env)
        ELSE IF state # None /\ StartsWith(state, "contact_")
        THEN handle_contact_flow(w1, query, session_id, env)
        ELSE route_by_intent(w1, query, session_id, env)

\* priority 2 of the router, falling through to priority 3
route_by_state(w, query, session_id, env) ==
    LET S == get_session(w.sessions, session_id, w.now)
        w1 == [w EXCEPT !.sessions = S]
        state == S[session_id].state
    IN  IF state # None /\ StartsWith(state, "demo_")
        THEN handle_demo_flow(w1, query, session_id, env)
        ELSE IF state # None /\ StartsWith(state, "career_")
        THEN handle_career_flow(w1, query, session_id, env)
        ELSE IF state # None /\ StartsWith(state, "rfp_")
        THEN handle_rfp_flow(w1, query, session_id, env)
        ELSE IF state # None /\ StartsWith(state, "contact_")
        THEN handle_contact_flow(w1, query, session_id, env)
        ELSE route_by_intent(w1, query, session_id, env)

\* mutant: an active flow is served before the handoff check
handle_user_query_flow_first(w, query, session_id, env) ==
    IF StateOf(w.sessions, session_id) # None
    THEN route_by_state(w, query, session_id, env)
    ELSE IF _detect_handoff(Strip(Lower(query)))
    THEN _escalate_to_human(w, query, session_id, env)
    ELSE route_by_state(w, query, session_id, env)

handle_user_query(w, query, session_id, env) ==
    IF _detect_handoff(Strip(Lower(query)))
    THEN _escalate_to_human(w, query, session_id, env)
    ELSE route_by_state(w, query, session_id, env)

-----------------------------------------------------------------------------
(* Inputs *)

SessionIds == {"s1"}
StoreSessionIds == {"s1", "s2"}

\* str(uuid.uuid4())[:8].upper(): any 8-character token, twice the same included
TicketIds == {"1A2B3C4D", "9F8E7D6C"}

qEscalate == <<"Escalate">>
qHuman == <<SP, "talk", "to", "a", "person">>
qDemo == <<"book", "a", "Demo">>
qCareer == <<"are", "you", "Hiring">>
qRfp == <<"submit", "our", "RFP">>
qContact == <<"get", "in", "touch">>
qDemoAndRfp == <<"request", "demo", "and", "send", "rfp">>

HandoffQueries == {qEscalate, qHuman}
IntentQueries == {qDemo, qCareer, qRfp, qContact, qDemoAndRfp}
KnowledgeQueries == {<<"what", "services">>, <<"Other">>, <<"demonstrate">>}
InvalidEmails == {<<"jane@co">>, <<"jane.doe">>, <<"not-an-email">>}
ValidEmails == {<<"jane@co.com">>, <<SP, "a@b", "c.d">>}

\* what a user may send while the session is in the given state
InputsAt(state) ==
    HandoffQueries \cup
    CASE state = None -> IntentQueries \cup KnowledgeQueries
      [] state = "demo_awaiting_industry" ->
            {<<"Finance">>, <<"Other">>, <<SP, "OTHER", SP>>, <<OFFICE, "Other">>, qRfp}
      [] state = "demo_awaiting_custom_industry" -> {<<"Healthcare">>, <<"Other">>}
      [] state = "demo_awaiting_name" -> {<<"Jane", "Doe">>, <<SP, "Jane", "Doe", SP>>}
      [] state = "demo_awaiting_email" -> InvalidEmails \cup ValidEmails
      [] state = "demo_awaiting_phone" -> {<<"+1234567890">>, qContact}
      [] state = "demo_awaiting_referral" ->
            {<<"Referral">>, <<"OTHER">>, <<"via", OFFICE, "Other">>}
      [] state = "demo_awaiting_custom_referral" -> {<<"LinkedIn">>, <<"Other">>}
      [] state = "demo_awaiting_date" -> {<<"2025-12-01", "3pm">>, qDemo}
      [] state = "career_awaiting_name" -> {<<"Jane", "Doe">>, qDemo, <<"Cancel">>}
      [] state = "career_awaiting_email" -> {<<"jane@co.com">>, <<"not-an-email">>}
      [] state = "career_awaiting_position" -> {<<"Data", "Analyst">>, <<"Other">>}
      [] state = "rfp_awaiting_company" -> {<<"Acme">>, qCareer}
      [] state = "rfp_awaiting_contact" -> {<<"jane@co.com">>}
      [] state = "rfp_awaiting_brief" -> {<<"BI", "dashboard">>, qContact}
      [] state = "contact_awaiting_name" -> {<<"Jane", "Doe">>, qRfp}
      [] state = "contact_awaiting_method" ->
            {<<"email">>, <<"Phone">>, <<SP, "Both", SP>>, <<"fax">>}
      [] OTHER -> {}

\* what AWS may do with the retrieval and the model invocation of a turn
Upstream(retrieval, generation, text) ==
    [retrieval |-> retrieval, sources |-> <<"s3://kb/services.pdf">>,
     context |-> <<"our", "services">>, generation |-> generation, text |-> text]

KbAnswered == Upstream("ok", "text", <<"we", "offer", "analytics", "services">>)

KbResults ==
    {KbAnswered,
     Upstream("error", "text", <<"we", "are", "Hiring">>),
     Upstream("ok", "empty", <<>>),
     Upstream("error", "empty", <<>>),
     Upstream("ok", "error", <<>>)}

\* the surroundings of one call: the module flag, the uuid drawn, whether the
\* INSERT commits, and what the AI collaborator answers
Env(ticket_id, db_ok, kb) ==
    [enabled |-> DATABASE_ENABLED, ticket_id |-> ticket_id, db_ok |-> db_ok, kb |-> kb]

\* for calls that consult no ticket, no database or no AI collaborator
AnyTicket == CHOOSE t \in TicketIds : TRUE
AnyKb == KbAnswered

NoTurn == [op |-> "none", query |-> <<>>, session_id |-> "none"]
NoResult == [type |-> "none"]

-----------------------------------------------------------------------------
(* The router under arbitrary users: one call of handle_user_query per step *)

Init ==
    /\ DATABASE_ENABLED \in BOOLEAN
    /\ sessions = EmptyDict
    /\ leads = <<>>
    /\ clock = 0
    /\ turn = NoTurn
    /\ prev = EmptyDict
    /\ saved = <<>>
    /\ result = NoResult
    /\ script = <<>>
    /\ responses = <<>>
    /\ chat_sessions = EmptyDict
    /\ uuids = {}
    /\ threads = <<>>

\* handle_user_query(query, session_id) is called and returns (or raises)
Call(query, session_id, env) ==
    \E out \in {handle_user_query(World(sessions, leads, <<>>, clock),
                                  query, session_id, env)} :
        /\ sessions' = out.sessions
        /\ leads' = out.leads
        /\ saved' = out.saved
        /\ result' = out.result
        /\ turn' = [op |-> "handle_user_query", query |-> query,
                    session_id |-> session_id, kb |-> env.kb, before |-> leads]
        /\ prev' = sessions
        /\ UNCHANGED <<DATABASE_ENABLED, clock>>

UserTurn(query, session_id, env) ==
    /\ Len(leads) < MaxLeads
    /\ query \in InputsAt(StateOf(sessions, session_id))
    /\ Call(query, session_id, env)
    /\ UNCHANGED <<script, responses, threads, chat_sessions, uuids>>

HandoffTurn ==
    \E session_id \in SessionIds, query \in HandoffQueries,
       ticket_id \in TicketIds, db_ok \in BOOLEAN :
        UserTurn(query, session_id, Env(ticket_id, db_ok, AnyKb))

FlowTurn ==
    \E session_id \in SessionIds, ticket_id \in TicketIds, db_ok \in BOOLEAN :
        /\ StateOf(sessions, session_id) # None
        /\ \E query \in InputsAt(StateOf(sessions, session_id)) \ HandoffQueries :
                UserTurn(query, session_id, Env(ticket_id, db_ok, AnyKb))

IntentTurn ==
    \E session_id \in SessionIds, query \in IntentQueries :
        /\ StateOf(sessions, session_id) = None
        /\ UserTurn(query, session_id, Env(AnyTicket, TRUE, AnyKb))

KnowledgeTurn ==
    \E session_id \in SessionIds, query \in KnowledgeQueries, kb \in KbResults :
        /\ StateOf(sessions, session_id) = None
        /\ UserTurn(query, session_id, Env(AnyTicket, TRUE, kb))

Next == HandoffTurn \/ FlowTurn \/ IntentTurn \/ KnowledgeTurn

Spec == Init /\ [][Next]_vars

-----------------------------------------------------------------------------
(* The session store on its own, with time passing between calls *)

StoreStates == {"demo_awaiting_name", "career_awaiting_email"}
StoreData ==
    {EmptyDict, Dict1("name", <<"Jane", "Doe">>), Dict1("email", <<"jane@co.com">>),
     Dict1("name", <<"Joe">>)}

StoreCall(op, session_id, S, returned) ==
    /\ sessions' = S
    /\ turn' = [op |-> op, query |-> <<>>, session_id |-> session_id]
    /\ prev' = sessions
    /\ result' = returned
    /\ UNCHANGED <<DATABASE_ENABLED, leads, clock, saved, script, responses,
                   threads, chat_sessions, uuids>>

GetSession ==
    \E session_id \in StoreSessionIds :
        \E S \in {get_session(sessions, session_id, clock)} :
            StoreCall("get_session", session_id, S, S[session_id])

UpdateSession ==
    \E session_id \in StoreSessionIds, state \in StoreStates, data \in StoreData :
        StoreCall("update_session", session_id,
                  update_session(sessions, session_id, state, data, clock),
                  [type |-> "returned_none", state |-> state, data |-> data])

ClearSessionState ==
    \E session_id \in StoreSessionIds :
        StoreCall("clear_session_state", session_id,
                  clear_session_state(sessions, session_id), ReturnsNone)

Tick ==
    /\ clock < MaxClock
    /\ clock' = clock + 1
    /\ UNCHANGED <<DATABASE_ENABLED, sessions, leads, turn, prev, saved, result,
                   script, responses, threads, chat_sessions, uuids>>

NextStore == GetSession \/ UpdateSession \/ ClearSessionState \/ Tick

SpecStore == Init /\ [][NextStore]_vars

-----------------------------------------------------------------------------
(* The enricher as a function of the query and the answer *)

EnrichWords ==
    {"Hiring", "resume", "demo", "services", "projects", "pricing", "phone", "api",
     "rfp", "hello"}

\* the texts of at most n words
Texts(n) == UNION {[1..k -> EnrichWords] : k \in 0..n}

EnrichAnswers ==
    {<<"sorry">>,
     <<"we", "offer", "analytics", "services">>,
     <<"we", "are", "Hiring">>,
     <<"see", "our", "case", "study">>,
     <<"pricing", "and", "proposal", "by", "email">>,
     <<"demo", "of", "our", "solutions", "for", "your", "projects", "budget">>}

InitEnrich ==
    /\ DATABASE_ENABLED = TRUE
    /\ sessions = EmptyDict
    /\ leads = <<>>
    /\ clock = 0
    /\ \E query \in Texts(MaxText), answer \in EnrichAnswers :
            turn = [op |-> "enrich_response", query |-> query, session_id |-> "none",
                    answer |-> answer]
    /\ prev = EmptyDict
    /\ saved = <<>>
    /\ result = NoResult
    /\ script = <<>>
    /\ responses = <<>>
    /\ chat_sessions = EmptyDict
    /\ uuids = {}
    /\ threads = <<>>

Enrich ==
    /\ result = NoResult
    /\ result' = [type |-> "rich_payload",
                  rich_payload |-> enrich_response(turn.answer, turn.query)]
    /\ UNCHANGED <<DATABASE_ENABLED, sessions, leads, clock, turn, prev, saved,
                   script, responses, threads, chat_sessions, uuids>>

SpecEnrich == InitEnrich /\ [][Enrich]_vars

-----------------------------------------------------------------------------
(* A user who walks the demo flow from an idle session *)

DemoSession == "s1"

\* at most n rejected e-mail answers in a row
RejectSeqs(n) == UNION {[1..k -> InvalidEmails] : k \in 0..n}

DemoScripts ==
    {<<start, industry, name>> \o rejects \o <<email, phone, referral, date>> :
        start \in {qDemo, qDemoAndRfp},
        industry \in {<<"Finance">>, qRfp},
        name \in {<<"Jane", "Doe">>, <<SP, "Jane", "Doe", SP>>},
        rejects \in RejectSeqs(MaxRejects),
        email \in ValidEmails,
        phone \in {<<"+1234567890">>},
        referral \in {<<"Referral">>, <<"Google", "Search">>},
        date \in {<<"2025-12-01", "3pm">>, qDemo}}

InitDemo ==
    /\ DATABASE_ENABLED \in BOOLEAN
    /\ sessions = EmptyDict
    /\ leads = <<>>
    /\ clock = 0
    /\ turn = NoTurn
    /\ prev = EmptyDict
    /\ saved = <<>>
    /\ result = NoResult
    /\ script \in DemoScripts
    /\ responses = <<>>
    /\ chat_sessions = EmptyDict
    /\ uuids = {}
    /\ threads = <<>>

\* the next query of the script is sent and answered
DemoSend ==
    /\ script # <<>>
    /\ \E ticket_id \in TicketIds, db_ok \in BOOLEAN :
            Call(Head(script), DemoSession, Env(ticket_id, db_ok, AnyKb))
    /\ script' = Tail(script)
    /\ responses' = Append(responses,
                           [query |-> Head(script), result |-> result',
                            session |-> sessions'[DemoSession], saved |-> saved',
                            leads |-> leads'])
    /\ UNCHANGED <<threads, chat_sessions, uuids>>

SpecDemo == InitDemo /\ [][DemoSend]_vars

-----------------------------------------------------------------------------
(* The four flow handlers called directly, on a session in any flow's state *)

FlowStates ==
    {"demo_awaiting_industry", "demo_awaiting_custom_industry", "demo_awaiting_name",
     "demo_awaiting_email", "demo_awaiting_phone", "demo_awaiting_referral",
     "demo_awaiting_custom_referral", "demo_awaiting_date",
     "career_awaiting_name", "career_awaiting_email", "career_awaiting_position",
     "rfp_awaiting_company", "rfp_awaiting_contact", "rfp_awaiting_brief",
     "contact_awaiting_name", "contact_awaiting_method"}

\* the answers a flow has stored when it waits in the given state
KeysAt(state) ==
    CASE state = "demo_awaiting_name" -> {"industry"}
      [] state = "demo_awaiting_email" -> {"industry", "name"}
      [] state = "demo_awaiting_phone" -> {"industry", "name", "email"}
      [] state \in {"demo_awaiting_referral", "demo_awaiting_custom_referral"} ->
            {"industry", "name", "email", "phone"}
      [] state = "demo_awaiting_date" ->
            {"industry", "name", "email", "phone", "referral_source"}
      [] state = "career_awaiting_email" -> {"name"}
      [] state = "career_awaiting_position" -> {"name", "email"}
      [] state = "rfp_awaiting_contact" -> {"company"}
      [] state = "rfp_awaiting_brief" -> {"company", "email"}
      [] state = "contact_awaiting_method" -> {"name"}
      [] OTHER -> {}

AnswerFor(key) ==
    CASE key = "industry" -> <<"Finance">>
      [] key = "name" -> <<"Jane", "Doe">>
      [] key = "email" -> <<"jane@co.com">>
      [] key = "phone" -> <<"+1234567890">>
      [] key = "referral_source" -> <<"Referral">>
      [] key = "company" -> <<"Acme">>

\* a session as a flow leaves it when it waits in the given state
SessionAt(state) ==
    [state |-> state, data |-> [key \in KeysAt(state) |-> AnswerFor(key)],
     created_at |-> 0, last_updated |-> 0]

HandlerQueries == {<<"Jane", "Doe">>, <<"jane@co.com">>, <<"Other">>}

InitHandlers ==
    /\ DATABASE_ENABLED \in BOOLEAN
    /\ \E state \in FlowStates \cup {None} :
            sessions = [session_id \in SessionIds |-> SessionAt(state)]
    /\ leads = <<>>
    /\ clock = 0
    /\ turn = NoTurn
    /\ prev = EmptyDict
    /\ saved = <<>>
    /\ result = NoResult
    /\ script = <<>>
    /\ responses = <<>>
    /\ chat_sessions = EmptyDict
    /\ uuids = {}
    /\ threads = <<>>

\* a handler was called with (query, session_id) and left out behind
HandlerCall(op, query, session_id, out) ==
    /\ turn = NoTurn
    /\ sessions' = out.sessions
    /\ leads' = out.leads
    /\ saved' = out.saved
    /\ result' = out.result
    /\ turn' = [op |-> op, query |-> query, session_id |-> session_id]
    /\ prev' = sessions
    /\ UNCHANGED <<DATABASE_ENABLED, clock, script, responses, threads,
                   chat_sessions, uuids>>

DemoHandler ==
    \E session_id \in SessionIds, query \in HandlerQueries,
       ticket_id \in TicketIds, db_ok \in BOOLEAN :
        HandlerCall("handle_demo_flow", query, session_id,
                    handle_demo_flow(World(sessions, leads, <<>>, clock), query,
                                     session_id, Env(ticket_id, db_ok, AnyKb)))

CareerHandler ==
    \E session_id \in SessionIds, query \in HandlerQueries,
       ticket_id \in TicketIds, db_ok \in BOOLEAN :
        HandlerCall("handle_career_flow", query, session_id,
                    handle_career_flow(World(sessions, leads, <<>>, clock), query,
                                       session_id, Env(ticket_id, db_ok, AnyKb)))

RfpHandler ==
    \E session_id \in SessionIds, query \in HandlerQueries,
       ticket_id \in TicketIds, db_ok \in BOOLEAN :
        HandlerCall("handle_rfp_flow", query, session_id,
                    handle_rfp_flow(World(sessions, leads, <<>>, clock), query,
                                    session_id, Env(ticket_id, db_ok, AnyKb)))

ContactHandler ==
    \E session_id \in SessionIds, query \in HandlerQueries,
       ticket_id \in TicketIds, db_ok \in BOOLEAN :
        HandlerCall("handle_contact_flow", query, session_id,
                    handle_contact_flow(World(sessions, leads, <<>>, clock), query,
                                        session_id, Env(ticket_id, db_ok, AnyKb)))

NextHandlers == DemoHandler \/ CareerHandler \/ RfpHandler \/ ContactHandler

SpecHandlers == InitHandlers /\ [][NextHandlers]_vars

-----------------------------------------------------------------------------
(* Two requests for one session, each handled by a thread of its own: the     *)
(* router's read of the state, the handler's read of the state and the        *)
(* handler's branch (update, or save and clear) are separate steps.           *)

RaceThreads == {1, 2}
RaceSession == "s1"
RaceStates == {"demo_awaiting_name", "demo_awaiting_date"}

RaceInputs(state) ==
    CASE state = "demo_awaiting_name" -> {<<"Jane", "Doe">>, <<"jane@co.com">>, qEscalate}
      [] state = "demo_awaiting_date" -> {<<"2025-12-01", "3pm">>, qDemo, qEscalate}

\* a request that has arrived and not yet been looked at
Received(query) ==
    [pc |-> "received", query |-> query, handler |-> "none",
     current_state |-> None, result |-> NoResult]

\* the handler priorities 2 and 3 of the router pick for the state it read
route_target(state, query) ==
    IF state # None /\ StartsWith(state, "demo_") THEN "handle_demo_flow"
    ELSE IF state # None /\ StartsWith(state, "career_") THEN "handle_career_flow"
    ELSE IF state # None /\ StartsWith(state, "rfp_") THEN "handle_rfp_flow"
    ELSE IF state # None /\ StartsWith(state, "contact_") THEN "handle_contact_flow"
    ELSE LET intent == _detect_transactional_intent(Strip(Lower(query)))
         IN  CASE intent = "request_demo" -> "handle_demo_flow"
               [] intent = "request_career" -> "handle_career_flow"
               [] intent = "upload_rfp" -> "handle_rfp_flow"
               [] intent = "request_contact" -> "handle_contact_flow"
               [] OTHER -> "_query_knowledge_base"

\* the branch the handler takes for the state tag it read earlier, run on the
\* store as it is now
flow_branch(handler, current_state, w, query, session_id, env) ==
    CASE handler = "handle_demo_flow" ->
            demo_branch(current_state, w, query, session_id, env)
      [] handler = "handle_career_flow" ->
            career_branch(current_state, w, query, session_id, env)
      [] handler = "handle_rfp_flow" ->
            rfp_branch(current_state, w, query, session_id, env)
      [] handler = "handle_contact_flow" ->
            contact_branch(current_state, w, query, session_id, env)

InitRace ==
    /\ DATABASE_ENABLED \in BOOLEAN
    /\ \E state \in RaceStates :
        /\ sessions = [session_id \in {RaceSession} |-> SessionAt(state)]
        /\ threads \in [RaceThreads -> {Received(query) : query \in RaceInputs(state)}]
    /\ prev = sessions
    /\ leads = <<>>
    /\ clock = 0
    /\ turn = [op |-> "race", query |-> <<>>, session_id |-> RaceSession]
    /\ saved = <<>>
    /\ result = NoResult
    /\ script = <<>>
    /\ responses = <<>>
    /\ chat_sessions = EmptyDict
    /\ uuids = {}

\* thread t returns what out holds and leaves out's world behind
Return(t, out) ==
    /\ sessions' = out.sessions
    /\ leads' = out.leads
    /\ saved' = out.saved
    /\ threads' = [threads EXCEPT ![t].pc = "returned", ![t].result = out.result]

\* handle_user_query up to the dispatch: the handoff and the knowledge query
\* run to their return, a flow handler is entered
Route(t) ==
    /\ threads[t].pc = "received"
    /\ \E ticket_id \in TicketIds, db_ok \in BOOLEAN :
        LET query == threads[t].query
            S == get_session(sessions, RaceSession, clock)
            target == route_target(S[RaceSession].state, query)
        IN  IF _detect_handoff(Strip(Lower(query)))
            THEN Return(t, _escalate_to_human(World(sessions, leads, saved, clock),
                                              query, RaceSession,
                                              Env(ticket_id, db_ok, AnyKb)))
            ELSE IF target = "_query_knowledge_base"
            THEN Return(t, _query_knowledge_base(World(S, leads, saved, clock),
                                                 query, RaceSession,
                                                 Env(ticket_id, db_ok, AnyKb)))
            ELSE /\ sessions' = S
                 /\ threads' = [threads EXCEPT ![t].pc = "routed",
                                               ![t].handler = target]
                 /\ UNCHANGED <<leads, saved>>
    /\ UNCHANGED <<DATABASE_ENABLED, clock, turn, prev, result, script, responses,
                   chat_sessions, uuids>>

\* the handler's first two lines: get_session, current_state = session['state']
ReadState(t) ==
    /\ threads[t].pc = "routed"
    /\ \E S \in {get_session(sessions, RaceSession, clock)} :
        /\ sessions' = S
        /\ threads' = [threads EXCEPT ![t].pc = "read",
                                      ![t].current_state = S[RaceSession].state]
    /\ UNCHANGED <<DATABASE_ENABLED, leads, clock, turn, prev, saved, result, script,
                   responses, chat_sessions, uuids>>

\* the handler's branch for the state it read
Act(t) ==
    /\ threads[t].pc = "read"
    /\ \E ticket_id \in TicketIds, db_ok \in BOOLEAN :
        Return(t, flow_branch(threads[t].handler, threads[t].current_state,
                              World(sessions, leads, saved, clock), threads[t].query,
                              RaceSession, Env(ticket_id, db_ok, AnyKb)))
    /\ UNCHANGED <<DATABASE_ENABLED, clock, turn, prev, result, script, responses,
                   chat_sessions, uuids>>

NextRace == \E t \in RaceThreads : Route(t) \/ ReadState(t) \/ Act(t)

SpecRace == InitRace /\ [][NextRace]_vars

-----------------------------------------------------------------------------
(* Two users, each with a session id of their own, taking turns in any order *)

PairSessionIds == {"s1", "s2"}

\* what each of the two users may send in the given state
PairInputsAt(state) ==
    {qEscalate} \cup
    CASE state = None -> {qDemo, qContact, <<"what", "services">>}
      [] state = "demo_awaiting_industry" -> {<<"Finance">>}
      [] state = "demo_awaiting_name" -> {<<"Jane", "Doe">>}
      [] state = "demo_awaiting_email" -> {<<"jane@co.com">>, <<"not-an-email">>}
      [] state = "demo_awaiting_phone" -> {<<"+1234567890">>}
      [] state = "demo_awaiting_referral" -> {<<"Referral">>}
      [] state = "demo_awaiting_date" -> {<<"2025-12-01", "3pm">>}
      [] state = "contact_awaiting_name" -> {<<"Jane", "Doe">>}
      [] state = "contact_awaiting_method" -> {<<"Phone">>}
      [] OTHER -> {}

PairTurn ==
    \E session_id \in PairSessionIds, ticket_id \in TicketIds, db_ok \in BOOLEAN :
        \E query \in PairInputsAt(StateOf(sessions, session_id)) :
            /\ Len(leads) < MaxLeads
            /\ Call(query, session_id, Env(ticket_id, db_ok, AnyKb))
            /\ UNCHANGED <<script, responses, threads, chat_sessions, uuids>>

SpecPair == Init /\ [][PairTurn]_vars

-----------------------------------------------------------------------------
(* The leads table under lead creations and status-update requests *)

StatusInputs == valid_statuses \cup {"new", "DONE", ""}

NewLeads ==
    {format_handoff_lead(qEscalate, AnyTicket),
     format_demo_lead(SessionAt("demo_awaiting_date").data, AnyTicket)}

\* save_lead(lead_data) is called, as the flows and the handoff call it
SaveLead ==
    /\ Len(leads) < MaxLeads
    /\ \E lead_data \in NewLeads, db_ok \in BOOLEAN :
        /\ leads' = save_lead(leads, lead_data, db_ok)
        /\ saved' = <<lead_data>>
        /\ turn' = [op |-> "save_lead", query |-> <<>>, session_id |-> "none",
                    before |-> leads]
        /\ result' = [type |-> "returned", saved |-> db_ok]
    /\ UNCHANGED <<DATABASE_ENABLED, sessions, clock, prev, script, responses,
                   threads, chat_sessions, uuids>>

\* a client sends PUT /api/leads/{lead_id}/status
UpdateLeadStatus ==
    \E lead_id \in 1..(MaxLeads + 1), status \in StatusInputs, db_ok \in BOOLEAN :
        \E out \in {main_update_lead_status(leads, lead_id, status, db_ok)} :
            /\ leads' = out.leads
            /\ result' = out.result
            /\ turn' = [op |-> "update_lead_status", query |-> <<>>,
                        session_id |-> "none", before |-> leads,
                        lead_id |-> lead_id, status |-> status]
            /\ UNCHANGED <<DATABASE_ENABLED, sessions, clock, prev, saved, script,
                           responses, threads, chat_sessions, uuids>>

NextLeads == SaveLead \/ UpdateLeadStatus

SpecLeads == Init /\ [][NextLeads]_vars

-----------------------------------------------------------------------------
(* main.py: the caller boundary, which issues session ids and keeps histories *)

\* the cap of add_to_history on the stored messages
HistoryLimit == 20

\* messages[-n:]
LastN(messages, n) ==
    IF Len(messages) > n
    THEN SubSeq(messages, Len(messages) - n + 1, Len(messages))
    ELSE messages

\* a chat session as get_or_create_session stores it (the two timestamps,
\* which nothing reads back, are left out)
NewChatSession == [messages |-> <<>>]

\* mutant: an id the client supplied is taken over as it is
get_or_create_session_trusting(chats, session_id, new_session_id) ==
    IF session_id # None
    THEN [chat_sessions |->
            [x \in (DOMAIN chats) \cup {session_id} |->
                IF x \in DOMAIN chats THEN chats[x] ELSE NewChatSession],
          session_id |-> session_id]
    ELSE [chat_sessions |->
            [x \in (DOMAIN chats) \cup {new_session_id} |->
                IF x = new_session_id THEN NewChatSession ELSE chats[x]],
          session_id |-> new_session_id]

\* get_or_create_session(session_id); new_session_id is what uuid4 returns
get_or_create_session(chats, session_id, new_session_id) ==
    IF session_id # None /\ session_id \in DOMAIN chats
    THEN [chat_sessions |-> chats, session_id |-> session_id]
    ELSE [chat_sessions |->
            [x \in (DOMAIN chats) \cup {new_session_id} |->
                IF x = new_session_id THEN NewChatSession ELSE chats[x]],
          session_id |-> new_session_id]

\* mutant: the history keeps its first messages and drops the new ones
add_to_history_keep_oldest(chats, session_id, role, content) ==
    IF session_id \in DOMAIN chats
    THEN [chats EXCEPT ![session_id].messages =
            SubSeq(Append(@, [role |-> role, content |-> content]), 1,
                   IF Len(@) + 1 > HistoryLimit THEN HistoryLimit ELSE Len(@) + 1)]
    ELSE chats

add_to_history(chats, session_id, role, content) ==
    IF session_id \in DOMAIN chats
    THEN [chats EXCEPT ![session_id].messages =
            LastN(Append(@, [role |-> role, content |-> content]), HistoryLimit)]
    ELSE chats

\* DELETE /api/chat/session/{session_id}
delete_session(chats, session_id) ==
    IF session_id \in DOMAIN chats
    THEN [chat_sessions |-> [x \in (DOMAIN chats) \ {session_id} |-> chats[x]],
          result |-> [type |-> "deleted", success |-> TRUE]]
    ELSE [chat_sessions |-> chats, result |-> HTTPException(404)]

\* POST /api/chat: what it leaves in chat_sessions and in the orchestrator, and
\* what it answers; any exception below it becomes a 500
chat(chats, w, session_id, message, new_session_id, env) ==
    LET got == get_or_create_session(chats, session_id, new_session_id)
        c1 == add_to_history(got.chat_sessions, got.session_id, "user", message)
        out == handle_user_query(w, message, got.session_id, env)
    IN  IF out.result.type = "raised" \/ "response" \notin DOMAIN out.result
        THEN [chat_sessions |-> c1, session_id |-> got.session_id, out |-> out,
              result |-> HTTPException(500)]
        ELSE [chat_sessions |->
                add_to_history(c1, got.session_id, "assistant", out.result.response),
              session_id |-> got.session_id, out |-> out,
              result |-> [type |-> "ChatResponse",
                          response |-> out.result.response,
                          session_id |-> got.session_id]]

\* the ids uuid4 can return, and an id a client made up
Uuids == {"u1", "u2", "u3"}
ForgedIds == {"x1"}
\* most messages a chat session holds before the client stops writing to it
MaxMessages == 3

BoundaryQueries == {qDemo, <<"Finance">>, qEscalate}

\* a client posts a message with no id, a made-up id, or an id issued earlier
\* (its chat session deleted or not)
ChatRequest ==
    \E session_id \in {None} \cup ForgedIds \cup uuids, message \in BoundaryQueries,
       new_session_id \in Uuids \ uuids :
        /\ session_id \in DOMAIN chat_sessions =>
                Len(chat_sessions[session_id].messages) < MaxMessages
        /\ \E r \in {chat(chat_sessions, World(sessions, leads, <<>>, clock), session_id,
                          message, new_session_id, Env(AnyTicket, TRUE, AnyKb))} :
            /\ chat_sessions' = r.chat_sessions
            /\ uuids' = IF r.session_id = session_id THEN uuids
                        ELSE uuids \cup {new_session_id}
            /\ sessions' = r.out.sessions
            /\ leads' = r.out.leads
            /\ saved' = r.out.saved
            /\ result' = r.result
            /\ prev' = sessions
            /\ turn' = [op |-> "chat", query |-> message, session_id |-> r.session_id,
                        supplied |-> session_id, chats |-> chat_sessions]
        /\ UNCHANGED <<DATABASE_ENABLED, clock, script, responses, threads>>

DeleteRequest ==
    \E session_id \in ForgedIds \cup uuids :
        \E r \in {delete_session(chat_sessions, session_id)} :
            /\ chat_sessions' = r.chat_sessions
            /\ result' = r.result
            /\ prev' = sessions
            /\ turn' = [op |-> "delete_session", query |-> <<>>,
                        session_id |-> session_id, supplied |-> session_id,
                        chats |-> chat_sessions]
            /\ UNCHANGED <<DATABASE_ENABLED, sessions, leads, clock, saved, script,
                           responses, threads, uuids>>

NextBoundary == ChatRequest \/ DeleteRequest

SpecBoundary == Init /\ [][NextBoundary]_vars

-----------------------------------------------------------------------------
(* add_to_history on its own: long conversations *)

\* most messages ever added to one chat session
MaxAdded == 23

HistoryIds == {"u1", "u2"}

InitHistory ==
    /\ DATABASE_ENABLED = TRUE
    /\ sessions = EmptyDict
    /\ leads = <<>>
    /\ clock = 0
    /\ turn = NoTurn
    /\ prev = EmptyDict
    /\ saved = <<>>
    /\ result = NoResult
    /\ script = <<>>
    /\ responses = <<>>
    /\ threads = <<>>
    /\ chat_sessions = [session_id \in HistoryIds |-> NewChatSession]
    /\ uuids = HistoryIds

\* how many messages were added to the session so far: the content of a
\* message is its number in the conversation
Added(chats, session_id) ==
    IF session_id \in DOMAIN chats /\ chats[session_id].messages # <<>>
    THEN chats[session_id].messages[Len(chats[session_id].messages)].content
    ELSE 0

\* add_to_history(session_id, role, content), for a session that is there and
\* for an id that is not
AddToHistory ==
    \E session_id \in HistoryIds \cup ForgedIds :
        LET content == Added(chat_sessions, session_id) + 1
            role == IF content % 2 = 1 THEN "user" ELSE "assistant"
        IN  /\ content <= MaxAdded
            /\ chat_sessions' = add_to_history(chat_sessions, session_id, role, content)
            /\ turn' = [op |-> "add_to_history", query |-> <<>>,
                        session_id |-> session_id, content |-> content,
                        chats |-> chat_sessions]
            /\ UNCHANGED <<DATABASE_ENABLED, sessions, leads, clock, prev, saved, result,
                           script, responses, threads, uuids>>

SpecHistory == InitHistory /\ [][AddToHistory]_vars

-----------------------------------------------------------------------------
(* Claims *)

IsCall == turn.op = "handle_user_query"
IsHandoffQuery == _detect_handoff(Strip(Lower(turn.query)))
Sid == turn.session_id
HadSession == Sid \in DOMAIN prev
PrevState == StateOf(prev, Sid)
PrevData == IF HadSession THEN prev[Sid].data ELSE EmptyDict
Completed(r) ==
    /\ r.type = "transaction"
    /\ "completed" \in DOMAIN r.metadata
    /\ r.metadata.completed
ErrorFlagged(r) ==
    /\ r.type = "transaction"
    /\ "error" \in DOMAIN r.metadata
    /\ r.metadata.error

\* C1: whatever state the session was in (idle or any awaiting_* state of any
\* flow), a message for which handoff detection is true gets a result of type
\* 'handoff', and afterwards the session is idle with an empty fields map.
C1_HandoffWinsAndClears ==
    (IsCall /\ IsHandoffQuery) =>
        /\ result.type = "handoff"
        /\ HadSession =>
            /\ Sid \in DOMAIN sessions
            /\ sessions[Sid].state = None
            /\ sessions[Sid].data = EmptyDict

\* C1 witness: a handoff message arrived in the middle of the demo flow, with
\* fields already collected, and was answered by a handoff
C1_Witness ==
    /\ IsCall /\ IsHandoffQuery
    /\ PrevState = "demo_awaiting_email"
    /\ PrevData # EmptyDict
    /\ result.type = "handoff"
    /\ sessions[Sid].state = None

LeadTypeOf(r) ==
    CASE r.type = "handoff" -> "HUMAN_HANDOFF"
      [] r.flow = "demo" -> "DEMO_REQUEST"
      [] r.flow = "career" -> "CAREER_APPLICATION"
      [] r.flow = "rfp" -> "RFP_UPLOAD"
      [] r.flow = "contact" -> "CONTACT_REQUEST"

\* C2: with the database service available, every completion of a flow and
\* every handoff makes exactly one save_lead call, whose lead type is that of
\* the event.
C2_OneLeadPerCompletion ==
    (IsCall /\ DATABASE_ENABLED /\ (result.type = "handoff" \/ Completed(result))) =>
        /\ Len(saved) = 1
        /\ saved[1].type = LeadTypeOf(result)

\* the session the i-th query of a scripted run found (idle before the first)
SessionBefore(i) == IF i = 1 THEN NewSession(0) ELSE responses[i - 1].session

\* C3: from an idle session, a demo-intent message followed by the six answers
\* industry (not 'Other'), name, a valid e-mail, phone, referral (not 'Other')
\* and date yields exactly 7 responses; only the last is marked completed, it
\* carries a non-empty ticket id, and its collected fields are exactly the six
\* keys with the values entered (as trimmed by the flow), each under the key
\* of its step.
C3_DemoWalk ==
    (script = <<>> /\ ValidEmail(Strip(responses[4].query))) =>
        /\ Len(responses) = 7
        /\ \A i \in 1..6 : ~Completed(responses[i].result)
        /\ Completed(responses[7].result)
        /\ "ticket_id" \in DOMAIN responses[7].result
        /\ responses[7].result.ticket_id \in TicketIds
        /\ responses[7].result.ticket_id # ""
        /\ responses[7].result.demo_data =
            [industry |-> Strip(responses[2].query),
             name |-> Strip(responses[3].query),
             email |-> Strip(responses[4].query),
             phone |-> Strip(responses[5].query),
             referral_source |-> Strip(responses[6].query),
             preferred_date |-> Strip(responses[7].query)]

\* C3 witness: the walk of the specification's example, completed
C3_Witness ==
    /\ script = <<>>
    /\ Len(responses) = 7
    /\ responses[1].query = qDemo
    /\ responses[2].query = <<"Finance">>
    /\ responses[3].query = <<"Jane", "Doe">>
    /\ responses[4].query = <<"jane@co.com">>
    /\ responses[6].query = <<"Referral">>
    /\ responses[7].query = <<"2025-12-01", "3pm">>
    /\ Completed(responses[7].result)
    /\ responses[7].result.demo_data.preferred_date = <<"2025-12-01", "3pm">>

\* C4: in state demo_awaiting_email an input is rejected exactly when it lacks
\* '@' or lacks '.'; a rejected input gets a response flagged as an error,
\* leaves the session (state demo_awaiting_email, every field, no 'email' key)
\* as it was and hands no lead to save_lead, however many rejected inputs
\* follow one another.
C4_EmailRejection ==
    \A i \in 1..Len(responses) :
        SessionBefore(i).state = "demo_awaiting_email" =>
            /\ ErrorFlagged(responses[i].result)
                <=> (~HasAt(responses[i].query) \/ ~HasDot(responses[i].query))
            /\ ErrorFlagged(responses[i].result) =>
                /\ responses[i].session = SessionBefore(i)
                /\ responses[i].session.state = "demo_awaiting_email"
                /\ "email" \notin DOMAIN responses[i].session.data
                /\ responses[i].saved = <<>>
                /\ responses[i].leads = <<>>
            /\ ~ErrorFlagged(responses[i].result) =>
                /\ responses[i].session.state = "demo_awaiting_phone"
                /\ responses[i].session.data =
                    DictSet(SessionBefore(i).data, "email", Strip(responses[i].query))

\* C4 witness: two rejected inputs in a row, one lacking '.', one lacking '@',
\* and then an accepted one
C4_Witness ==
    \E i \in 1..Len(responses) :
        /\ i + 2 <= Len(responses)
        /\ SessionBefore(i).state = "demo_awaiting_email"
        /\ responses[i].query = <<"jane@co">>
        /\ responses[i + 1].query = <<"jane.doe">>
        /\ ErrorFlagged(responses[i].result)
        /\ ErrorFlagged(responses[i + 1].result)
        /\ responses[i + 2].session.state = "demo_awaiting_phone"

SameStateAndFields(a, b) == a.state = b.state /\ a.data = b.data

\* the session reached when the query of the turn is given as the direct answer
\* at demo_awaiting_industry, by the session as it was before the detour
DirectIndustryAnswer ==
    handle_user_query(
        World([prev EXCEPT ![Sid].state = "demo_awaiting_industry"], leads, <<>>, clock),
        turn.query, Sid, Env(AnyTicket, TRUE, AnyKb)).sessions[Sid]

\* the detour itself: 'Other' writes no field, the next answer is stored under
\* 'industry' and the flow goes on to the name
C5_Detour ==
    /\ (PrevState = "demo_awaiting_industry" /\ IsOther(Strip(turn.query))) =>
        /\ sessions[Sid].state = "demo_awaiting_custom_industry"
        /\ sessions[Sid].data = PrevData
    /\ PrevState = "demo_awaiting_custom_industry" =>
        /\ sessions[Sid].state = "demo_awaiting_name"
        /\ sessions[Sid].data = DictSet(PrevData, "industry", Strip(turn.query))

\* C5 as stated: after 'Other' at demo_awaiting_industry, every next answer X is
\* stored under 'industry' and leaves the session (state and fields) identical
\* to the one reached by answering X directly at demo_awaiting_industry.
C5_DetourEqualsDirect_AnyAnswer ==
    (IsCall /\ ~IsHandoffQuery) =>
        /\ C5_Detour
        /\ PrevState = "demo_awaiting_custom_industry" =>
            SameStateAndFields(sessions[Sid], DirectIndustryAnswer)

\* C5 amended: the same, for every next answer X that is not itself an 'Other'
\* answer; an X that is one is stored literally as the industry, where the
\* direct answer would open the detour.
C5_DetourEqualsDirect ==
    (IsCall /\ ~IsHandoffQuery) =>
        /\ C5_Detour
        /\ (PrevState = "demo_awaiting_custom_industry" /\ ~IsOther(Strip(turn.query))) =>
            SameStateAndFields(sessions[Sid], DirectIndustryAnswer)
        /\ (PrevState = "demo_awaiting_custom_industry" /\ IsOther(Strip(turn.query))) =>
            /\ sessions[Sid].data["industry"] = Strip(turn.query)
            /\ DirectIndustryAnswer.state = "demo_awaiting_custom_industry"

\* C5 witness: the free-text industry given after 'Other' is stored and the
\* flow asks for the name
C5_Witness ==
    /\ IsCall
    /\ PrevState = "demo_awaiting_custom_industry"
    /\ turn.query = <<"Healthcare">>
    /\ sessions[Sid].state = "demo_awaiting_name"
    /\ sessions[Sid].data["industry"] = <<"Healthcare">>
    /\ SameStateAndFields(sessions[Sid], DirectIndustryAnswer)

\* C6: get_session on an id never seen returns an idle session with no fields;
\* get_session on an id already there returns the stored session, with its
\* state, fields and timestamps, and changes nothing in the store.
C6_GetSession ==
    turn.op = "get_session" =>
        /\ ~HadSession =>
            /\ result.state = None
            /\ result.data = EmptyDict
            /\ sessions[Sid] = result
            /\ \A other \in DOMAIN prev : sessions[other] = prev[other]
        /\ HadSession =>
            /\ sessions = prev
            /\ result = prev[Sid]

\* C6 witness: a session created at an earlier time and never updated is
\* fetched again and comes back with its first timestamps
C6_Witness ==
    /\ turn.op = "get_session"
    /\ HadSession
    /\ prev[Sid].state = None
    /\ prev[Sid].created_at < clock
    /\ prev[Sid].last_updated = prev[Sid].created_at
    /\ result.created_at = prev[Sid].created_at

TopicOrder ==
    <<"careers", "demo", "services", "case_studies", "pricing", "contact", "procurement">>

ButtonsOfTopic(topic) ==
    CASE topic = "careers" -> careers_buttons
      [] topic = "demo" -> demo_buttons
      [] topic = "services" -> services_buttons
      [] topic = "case_studies" -> case_studies_buttons
      [] topic = "pricing" -> pricing_buttons
      [] topic = "contact" -> contact_buttons
      [] topic = "procurement" -> procurement_buttons

\* the buttons of the matched topics from the k-th topic of the order on
RECURSIVE Accumulated(_, _)
Accumulated(topics, k) ==
    IF k > Len(TopicOrder) THEN <<>>
    ELSE (IF TopicOrder[k] \in topics THEN ButtonsOfTopic(TopicOrder[k]) ELSE <<>>)
            \o Accumulated(topics, k + 1)

IsEnriched == turn.op = "enrich_response" /\ result.type = "rich_payload"
MatchedTopics == detected_topics(turn.answer, turn.query)
\* the list the cut is applied to: the accumulated buttons, or the general ones
UncutButtons ==
    IF Accumulated(MatchedTopics, 1) = <<>> THEN default_buttons
    ELSE Accumulated(MatchedTopics, 1)

\* C7: the enricher returns at most 4 buttons, and they are the first 4 (or
\* all, when fewer) of the buttons accumulated in the fixed topic order, in
\* that order.
C7_AtMostFourInOrder ==
    IsEnriched =>
        /\ Len(result.rich_payload.buttons) <= 4
        /\ Len(result.rich_payload.buttons) =
            (IF Len(UncutButtons) < 4 THEN Len(UncutButtons) ELSE 4)
        /\ result.rich_payload.buttons =
            SubSeq(UncutButtons, 1, Len(result.rich_payload.buttons))

\* C7 witness: three topics matched, seven buttons accumulated, four returned
C7_Witness ==
    /\ IsEnriched
    /\ {"careers", "demo", "services"} \subseteq MatchedTopics
    /\ Len(UncutButtons) > 4
    /\ Len(result.rich_payload.buttons) = 4

\* C8: when the query and answer hold a careers keyword, the two careers
\* buttons come first and the supplementary message is not null, whatever
\* other topics match; without a careers keyword the message is null.
C8_CareersFirst ==
    IsEnriched =>
        IF \E keyword \in topic_keywords.careers :
                KeywordIn(keyword, Lower(turn.query \o turn.answer))
        THEN /\ Len(result.rich_payload.buttons) >= 2
             /\ result.rich_payload.buttons[1].label = "Upload Resume"
             /\ result.rich_payload.buttons[2].label = "View Open Positions"
             /\ result.rich_payload.additional_message # <<None>>
        ELSE result.rich_payload.additional_message = <<None>>

\* C8 witness: 'hiring' and 'resume' in the query, other topics in the answer
C8_Witness ==
    /\ IsEnriched
    /\ turn.query = <<"Hiring", "resume">>
    /\ {"demo", "services", "pricing"} \subseteq MatchedTopics
    /\ result.rich_payload.buttons[1].label = "Upload Resume"
    /\ result.rich_payload.additional_message = careers_message

FlowOf(state) ==
    CASE StartsWith(state, "demo_") -> "demo"
      [] StartsWith(state, "career_") -> "career"
      [] StartsWith(state, "rfp_") -> "rfp"
      [] StartsWith(state, "contact_") -> "contact"

\* the states one step further in each flow (None: the flow is complete)
StepSuccessors(state) ==
    CASE state = "demo_awaiting_industry" ->
            {"demo_awaiting_custom_industry", "demo_awaiting_name"}
      [] state = "demo_awaiting_custom_industry" -> {"demo_awaiting_name"}
      [] state = "demo_awaiting_name" -> {"demo_awaiting_email"}
      [] state = "demo_awaiting_email" -> {"demo_awaiting_phone"}
      [] state = "demo_awaiting_phone" -> {"demo_awaiting_referral"}
      [] state = "demo_awaiting_referral" ->
            {"demo_awaiting_custom_referral", "demo_awaiting_date"}
      [] state = "demo_awaiting_custom_referral" -> {"demo_awaiting_date"}
      [] state = "demo_awaiting_date" -> {None}
      [] state = "career_awaiting_name" -> {"career_awaiting_email"}
      [] state = "career_awaiting_email" -> {"career_awaiting_position"}
      [] state = "career_awaiting_position" -> {None}
      [] state = "rfp_awaiting_company" -> {"rfp_awaiting_contact"}
      [] state = "rfp_awaiting_contact" -> {"rfp_awaiting_brief"}
      [] state = "rfp_awaiting_brief" -> {None}
      [] state = "contact_awaiting_name" -> {"contact_awaiting_method"}
      [] state = "contact_awaiting_method" -> {None}

\* C9: a message that is not a handoff, sent to a session in a flow, is
\* answered by that flow (whatever intent its text matches) and moves the
\* flow exactly one step on; only a rejected e-mail of the demo flow moves it
\* by none.
C9_ActiveFlowAdvancesOneStep ==
    (IsCall /\ ~IsHandoffQuery /\ PrevState # None) =>
        /\ result.type = "transaction"
        /\ result.flow = FlowOf(PrevState)
        /\ \/ sessions[Sid].state \in StepSuccessors(PrevState)
           \/ /\ PrevState = "demo_awaiting_email"
              /\ ErrorFlagged(result)
              /\ sessions[Sid].state = PrevState

TurnIntent == _detect_transactional_intent(Strip(Lower(turn.query)))

FirstAwaiting(intent) ==
    CASE intent = "request_demo" -> "demo_awaiting_industry"
      [] intent = "request_career" -> "career_awaiting_name"
      [] intent = "upload_rfp" -> "rfp_awaiting_company"
      [] intent = "request_contact" -> "contact_awaiting_name"

\* C10: a message that is not a handoff and matches a transactional intent,
\* sent to an idle session, starts that intent's flow: the session is in the
\* flow's first awaiting state, its fields are still empty (the message is
\* not stored as an answer) and the result is a step of that flow.
C10_IntentStartsFlow ==
    (IsCall /\ ~IsHandoffQuery /\ PrevState = None /\ TurnIntent # None) =>
        /\ sessions[Sid].state = FirstAwaiting(TurnIntent)
        /\ sessions[Sid].data = EmptyDict
        /\ result.type = "transaction"
        /\ result.flow = FlowOf(FirstAwaiting(TurnIntent))
        /\ ~Completed(result)

\* C10 witness: a session idle again after a handoff or a completed flow gets
\* an RFP-intent message and is asked for the company
C10_Witness ==
    /\ IsCall
    /\ HadSession
    /\ PrevState = None
    /\ turn.query = qRfp
    /\ sessions[Sid].state = "rfp_awaiting_company"
    /\ sessions[Sid].data = EmptyDict

\* C11: a message that is neither a handoff nor a transactional intent, sent to
\* an idle session, is answered with a result of type 'knowledge' whose rich
\* payload is the enricher's output for the answer and the query; the session
\* stays idle with no fields and no lead is persisted.
C11_KnowledgeTurn ==
    (IsCall /\ ~IsHandoffQuery /\ PrevState = None /\ TurnIntent = None) =>
        /\ result.type = "knowledge"
        /\ result.rich_payload = enrich_response(result.response, turn.query)
        /\ sessions[Sid].state = None
        /\ sessions[Sid].data = EmptyDict
        /\ HadSession => sessions = prev
        /\ saved = <<>>

\* C11 witness: a services question answered with a careers text gets the
\* careers buttons; the session is idle and nothing was saved
C11_Witness ==
    /\ IsCall
    /\ PrevState = None
    /\ turn.query = <<"what", "services">>
    /\ result.type = "knowledge"
    /\ result.response = <<"we", "are", "Hiring">>
    /\ result.rich_payload.buttons[1].label = "Upload Resume"
    /\ sessions[Sid].state = None
    /\ saved = <<>>

\* C12: update_session(id, s, d) sets the state to s and merges d into the
\* fields: a key of d takes d's value, every other key keeps its value, no key
\* is dropped (an empty d leaves the fields as they were); other sessions and
\* the creation time are untouched.
C12_UpdateMerges ==
    turn.op = "update_session" =>
        /\ sessions[Sid].state = result.state
        /\ DOMAIN sessions[Sid].data = (DOMAIN PrevData) \cup (DOMAIN result.data)
        /\ \A k \in DOMAIN result.data : sessions[Sid].data[k] = result.data[k]
        /\ \A k \in (DOMAIN PrevData) \ (DOMAIN result.data) :
                sessions[Sid].data[k] = PrevData[k]
        /\ result.data = EmptyDict => sessions[Sid].data = PrevData
        /\ HadSession => sessions[Sid].created_at = prev[Sid].created_at
        /\ \A other \in (DOMAIN prev) \ {Sid} : sessions[other] = prev[other]

\* C12 witness: an e-mail is merged into a session that already holds a name
C12_Witness ==
    /\ turn.op = "update_session"
    /\ HadSession
    /\ PrevData = Dict1("name", <<"Jane", "Doe">>)
    /\ result.data = Dict1("email", <<"jane@co.com">>)
    /\ sessions[Sid].data["name"] = <<"Jane", "Doe">>
    /\ sessions[Sid].data["email"] = <<"jane@co.com">>
    /\ sessions[Sid].state = result.state

\* C13: clear_session_state on an existing session makes it idle with no
\* fields and keeps it in the store with created_at and last_updated as they
\* were; no operation ever removes a session key that exists.
C13_ClearKeepsSession ==
    /\ DOMAIN prev \subseteq DOMAIN sessions
    /\ (turn.op = "clear_session_state" /\ HadSession) =>
        /\ sessions[Sid].state = None
        /\ sessions[Sid].data = EmptyDict
        /\ sessions[Sid].created_at = prev[Sid].created_at
        /\ sessions[Sid].last_updated = prev[Sid].last_updated
        /\ \A other \in (DOMAIN prev) \ {Sid} : sessions[other] = prev[other]

\* C13 witness: a session in a flow, with a field, last updated at an earlier
\* time, is cleared
C13_Witness ==
    /\ turn.op = "clear_session_state"
    /\ HadSession
    /\ prev[Sid].state = "demo_awaiting_name"
    /\ prev[Sid].data # EmptyDict
    /\ prev[Sid].last_updated < clock
    /\ Sid \in DOMAIN sessions
    /\ sessions[Sid].state = None
    /\ sessions[Sid].data = EmptyDict

FinalAwaiting == {"demo_awaiting_date", "career_awaiting_position", "rfp_awaiting_brief"}

\* the turn is a handoff or the last answer of a flow that persists a lead
PersistingTurn == IsCall /\ (IsHandoffQuery \/ PrevState \in FinalAwaiting)

\* C14: when the lead of a handoff or of a flow's last step is not persisted
\* (the database is on and the table is still empty after the turn), the turn
\* still returns its confirmation with a ticket id and the session is idle;
\* nothing is raised and the session is not left in its final awaiting state.
C14_PersistFailureIsSilent ==
    (PersistingTurn /\ DATABASE_ENABLED /\ leads = <<>>) =>
        /\ result.type \in {"transaction", "handoff"}
        /\ "ticket_id" \in DOMAIN result
        /\ result.type = "transaction" => Completed(result)
        /\ HadSession => sessions[Sid].state = None /\ sessions[Sid].data = EmptyDict

\* the turn stored the trimmed answer under key and moved the flow to next
Stored(key, next) ==
    /\ result.type = "transaction"
    /\ ~Completed(result)
    /\ sessions[Sid].state = next
    /\ sessions[Sid].data = DictSet(PrevData, key, Strip(turn.query))

\* the turn completed the flow: a ticket id, the session idle with no fields
CompletedAndCleared(flow) ==
    /\ Completed(result)
    /\ result.flow = flow
    /\ "ticket_id" \in DOMAIN result
    /\ result.ticket_id \in TicketIds
    /\ sessions[Sid].state = None
    /\ sessions[Sid].data = EmptyDict

IsAnswer == IsCall /\ ~IsHandoffQuery

\* C15: the career flow is idle -> career_awaiting_name -> career_awaiting_email
\* -> career_awaiting_position -> complete: each non-handoff answer moves it
\* one state on, the position (also 'Other') completes it with a ticket id and
\* leaves the session idle with no fields.
C15_CareerFlow ==
    IsAnswer =>
        /\ (PrevState = None /\ TurnIntent = "request_career") =>
                sessions[Sid].state = "career_awaiting_name"
        /\ PrevState = "career_awaiting_name" => Stored("name", "career_awaiting_email")
        /\ PrevState = "career_awaiting_email" => Stored("email", "career_awaiting_position")
        /\ PrevState = "career_awaiting_position" => CompletedAndCleared("career")

\* C16: the RFP flow is idle -> rfp_awaiting_company -> rfp_awaiting_contact ->
\* rfp_awaiting_brief -> complete: each non-handoff answer moves it one state
\* on, the brief completes it with a ticket id and leaves the session idle
\* with no fields.
C16_RfpFlow ==
    IsAnswer =>
        /\ (PrevState = None /\ TurnIntent = "upload_rfp") =>
                sessions[Sid].state = "rfp_awaiting_company"
        /\ PrevState = "rfp_awaiting_company" => Stored("company", "rfp_awaiting_contact")
        /\ PrevState = "rfp_awaiting_contact" => Stored("email", "rfp_awaiting_brief")
        /\ PrevState = "rfp_awaiting_brief" => CompletedAndCleared("rfp")

\* the rendering the confirmation shows for a trimmed, lower-cased method
RenderingOf(method) ==
    IF method = <<"phone">> THEN "info_phone"
    ELSE IF method = <<"both">> THEN "info_email_and_phone"
    ELSE "info_email"

\* C17: the contact flow is idle -> contact_awaiting_name ->
\* contact_awaiting_method -> complete; 'email', 'phone' and 'both' (trimmed,
\* any letter case) get their own rendering, every other answer the e-mail
\* rendering, and the flow always completes with a ticket id and an idle
\* session.
C17_ContactFlow ==
    IsAnswer =>
        /\ (PrevState = None /\ TurnIntent = "request_contact") =>
                sessions[Sid].state = "contact_awaiting_name"
        /\ PrevState = "contact_awaiting_name" => Stored("name", "contact_awaiting_method")
        /\ PrevState = "contact_awaiting_method" =>
            /\ CompletedAndCleared("contact")
            /\ result.response[3] = RenderingOf(Lower(Strip(turn.query)))

\* C17 witness: 'fax' at the method step completes with the e-mail rendering
C17_Witness ==
    /\ IsAnswer
    /\ PrevState = "contact_awaiting_method"
    /\ turn.query = <<"fax">>
    /\ CompletedAndCleared("contact")
    /\ result.response[3] = "info_email"
    /\ result.contact_data["name"] = <<"Jane", "Doe">>

FlowHandlers ==
    {"handle_demo_flow", "handle_career_flow", "handle_rfp_flow", "handle_contact_flow"}

\* the state tags a handler has a branch for
Recognized(handler) ==
    {None} \cup
    CASE handler = "handle_demo_flow" ->
            {"demo_start"} \cup {state \in FlowStates : StartsWith(state, "demo_")}
      [] handler = "handle_career_flow" ->
            {state \in FlowStates : StartsWith(state, "career_")}
      [] handler = "handle_rfp_flow" ->
            {state \in FlowStates : StartsWith(state, "rfp_")}
      [] handler = "handle_contact_flow" ->
            {state \in FlowStates : StartsWith(state, "contact_")}

\* C18: each flow handler called on a session whose state tag it does not
\* recognize returns an error response offering to restart or to cancel; it
\* neither returns nothing nor raises.
C18_UnrecognizedStateRecovers ==
    (turn.op \in FlowHandlers /\ PrevState \notin Recognized(turn.op)) =>
        /\ result.type = "error"
        /\ \E i \in 1..Len(result.rich_payload.buttons) :
                result.rich_payload.buttons[i].action = "cancel_flow"
        /\ sessions = prev

IsRace == turn.op = "race"
AllReturned == \A t \in RaceThreads : threads[t].pc = "returned"

\* the session after the two requests of the race handled one after the other
SerialSession(first, second) ==
    LET o1 == handle_user_query(World(prev, <<>>, <<>>, clock), threads[first].query,
                                RaceSession, Env(AnyTicket, TRUE, AnyKb))
        o2 == handle_user_query(World(o1.sessions, o1.leads, o1.saved, clock),
                                threads[second].query, RaceSession,
                                Env(AnyTicket, TRUE, AnyKb))
    IN  o2.sessions[RaceSession]

\* C19: two messages for one session handled concurrently lose no update:
\* once both have returned, the session (state and fields) is the one that
\* handling them one after the other, in one of the two orders, produces.
C19_NoLostUpdate ==
    (IsRace /\ AllReturned) =>
        \/ SameStateAndFields(sessions[RaceSession], SerialSession(1, 2))
        \/ SameStateAndFields(sessions[RaceSession], SerialSession(2, 1))

\* C20: two messages handled concurrently while the session waits for the
\* last answer of the demo flow complete the flow at most once: at most one
\* response is marked completed (one ticket id) and save_lead is called for
\* at most one demo lead.
C20_CompletionRunsOnce ==
    (IsRace /\ prev[RaceSession].state \in FinalAwaiting) =>
        /\ Cardinality({t \in RaceThreads : Completed(threads[t].result)}) <= 1
        /\ Cardinality({i \in 1..Len(saved) : saved[i].type = "DEMO_REQUEST"}) <= 1
\* the call of the turn made on a store that holds no session but its own
AloneOutcomes ==
    {handle_user_query(
        World([session_id \in (DOMAIN prev) \cap {Sid} |-> prev[session_id]],
              <<>>, <<>>, clock),
        turn.query, Sid, Env(ticket_id, db_ok, AnyKb)) :
            ticket_id \in TicketIds, db_ok \in BOOLEAN}

\* C21: a turn for one session id leaves every other session as it was, and
\* what it returns and does to its own session is what it would return and do
\* if the other sessions did not exist.
C21_SessionsDoNotInterfere ==
    IsCall =>
        /\ \A other \in (DOMAIN prev) \ {Sid} : sessions[other] = prev[other]
        /\ \E alone \in AloneOutcomes :
            /\ alone.result = result
            /\ alone.sessions =
                    [session_id \in (DOMAIN sessions) \cap {Sid} |-> sessions[session_id]]

\* C21 witness: s2 completes its contact flow while s1 waits in the demo
\* flow with its answers
C21_Witness ==
    /\ IsCall
    /\ Sid = "s2"
    /\ "s1" \in DOMAIN prev
    /\ prev["s1"].state = "demo_awaiting_email"
    /\ PrevState = "contact_awaiting_method"
    /\ Completed(result)
    /\ sessions["s1"] = prev["s1"]
    /\ sessions["s1"].data["name"] = <<"Jane", "Doe">>

\* C22: every result of handle_user_query whose rich payload has buttons has
\* at most 4 of them, whatever the routing outcome.
C22_AtMostFourButtons ==
    (IsCall /\ "rich_payload" \in DOMAIN result
            /\ "buttons" \in DOMAIN result.rich_payload) =>
        Len(result.rich_payload.buttons) <= 4

\* C23: every lead's status is one of NEW, CONTACTED, IN_PROGRESS, CLOSED: a
\* lead just created has NEW, and a status-update request with any other
\* value is answered with an error and changes no lead.
C23_StatusVocabularyClosed ==
    /\ \A i \in 1..Len(leads) :
            leads[i].status \in {"NEW", "CONTACTED", "IN_PROGRESS", "CLOSED"}
    /\ (turn.op = "save_lead" /\ Len(leads) > Len(turn.before)) =>
            leads[Len(leads)].status = "NEW"
    /\ (turn.op = "update_lead_status"
            /\ turn.status \notin {"NEW", "CONTACTED", "IN_PROGRESS", "CLOSED"}) =>
            /\ result.type = "HTTPException"
            /\ result.status_code = 400
            /\ leads = turn.before

\* C23 witness: a lead moved to CONTACTED keeps that status when 'DONE' is
\* requested for it
C23_Witness ==
    /\ turn.op = "update_lead_status"
    /\ turn.status = "DONE"
    /\ turn.lead_id = 1
    /\ Len(leads) >= 1
    /\ turn.before[1].status = "CONTACTED"
    /\ leads[1].status = "CONTACTED"
    /\ result.type = "HTTPException"


\* a turn that took the knowledge path: idle session, no handoff, no intent
IsKnowledgeCall ==
    IsCall /\ ~IsHandoffQuery /\ PrevState = None /\ TurnIntent = None

\* C24: on the knowledge path an upstream failure stays inside the turn: a
\* failed retrieval gives a knowledge result with no sources and no context
\* used, a failed generation gives a knowledge result carrying the apology
\* text, and handle_user_query never raises.
C24_UpstreamFailureContained ==
    IsKnowledgeCall =>
        /\ result.type = "knowledge"
        /\ turn.kb.retrieval = "error" =>
              /\ result.sources = <<>>
              /\ result.metadata.kb_used = FALSE
              /\ result.metadata.source_count = 0
        /\ turn.kb.generation = "error" => result.response = apology

\* the retrieval half of C24 alone: a failed retrieval followed by a
\* successful generation is answered with empty sources and no context
C24_RetrievalFailureDegrades ==
    /\ IsKnowledgeCall
    /\ turn.kb.retrieval = "error"
    /\ result.type = "knowledge"
    /\ result.sources = <<>>
    /\ result.metadata.kb_used = FALSE


\* C25: once handle_user_query has returned for a session id, whatever the
\* routing outcome (a handoff on a never-seen id included), the session store
\* holds that id with its state, fields, created_at and last_updated.
C25_SessionCreatedOnFirstTurn ==
    (IsCall /\ result.type # "raised") =>
        /\ Sid \in DOMAIN sessions
        /\ DOMAIN sessions[Sid] = {"state", "data", "created_at", "last_updated"}

\* the part of C25 that holds: every turn that is not a handoff leaves the
\* session in the store
C25_CreatedUnlessHandoff ==
    (IsCall /\ ~IsHandoffQuery) =>
        /\ Sid \in DOMAIN sessions
        /\ DOMAIN sessions[Sid] = {"state", "data", "created_at", "last_updated"}


\* the session reached when the query of the turn is given as the direct answer
\* at demo_awaiting_referral, by the session as it was before the detour
DirectReferralAnswer ==
    handle_user_query(
        World([prev EXCEPT ![Sid].state = "demo_awaiting_referral"], leads, <<>>, clock),
        turn.query, Sid, Env(AnyTicket, TRUE, AnyKb)).sessions[Sid]

\* C26: at demo_awaiting_referral the answer 'Other', in any letter case, moves
\* the session to demo_awaiting_custom_referral and writes no field; the next
\* answer X is stored under 'referral_source' and moves the session to
\* demo_awaiting_date, which is the session reached by answering X directly;
\* an X that is itself 'Other' is stored literally and opens no second detour.
C26_ReferralDetour ==
    (IsCall /\ ~IsHandoffQuery) =>
        /\ (PrevState = "demo_awaiting_referral" /\ IsOther(Strip(turn.query))) =>
            /\ sessions[Sid].state = "demo_awaiting_custom_referral"
            /\ sessions[Sid].data = PrevData
        /\ (PrevState = "demo_awaiting_referral" /\ ~IsOther(Strip(turn.query))) =>
            /\ sessions[Sid].state = "demo_awaiting_date"
            /\ sessions[Sid].data = DictSet(PrevData, "referral_source", Strip(turn.query))
        /\ PrevState = "demo_awaiting_custom_referral" =>
            /\ sessions[Sid].state = "demo_awaiting_date"
            /\ sessions[Sid].data = DictSet(PrevData, "referral_source", Strip(turn.query))
            /\ ~IsOther(Strip(turn.query)) =>
                  SameStateAndFields(sessions[Sid], DirectReferralAnswer)
            /\ IsOther(Strip(turn.query)) =>
                  DirectReferralAnswer.state = "demo_awaiting_custom_referral"

\* C26 witness: 'Other' given inside the custom state is stored as the
\* referral source and the flow asks for the date
C26_Witness ==
    /\ IsCall
    /\ PrevState = "demo_awaiting_custom_referral"
    /\ turn.query = <<"Other">>
    /\ "referral_source" \notin DOMAIN PrevData
    /\ sessions[Sid].state = "demo_awaiting_date"
    /\ sessions[Sid].data["referral_source"] = <<"Other">>

\* the free-text referral after the detour equals the direct answer
C26_WitnessDirect ==
    /\ IsCall
    /\ PrevState = "demo_awaiting_custom_referral"
    /\ turn.query = <<"LinkedIn">>
    /\ sessions[Sid].data["referral_source"] = <<"LinkedIn">>
    /\ SameStateAndFields(sessions[Sid], DirectReferralAnswer)


\* the prefix of the state tags a handler writes
PrefixOf(handler) ==
    CASE handler = "handle_demo_flow" -> "demo_"
      [] handler = "handle_career_flow" -> "career_"
      [] handler = "handle_rfp_flow" -> "rfp_"
      [] handler = "handle_contact_flow" -> "contact_"

\* the prefixes a state tag starts with
PrefixesOf(state) ==
    {prefix \in {"demo_", "career_", "rfp_", "contact_"} : StartsWith(state, prefix)}

\* the handler the router chose in the turn
TurnHandler == route_target(PrevState, turn.query)

\* C27: along every sequence of handle_user_query calls each session is idle
\* or in a known tag of exactly one flow; the handler a turn is routed to
\* recognizes the tag the session had, and the tag it leaves carries its own
\* prefix; the demo error fallback is never returned and no turn with an
\* active session falls through the prefix dispatch.
C27_PrefixOwnsState ==
    /\ \A session_id \in DOMAIN sessions :
          \/ sessions[session_id].state = None
          \/ /\ sessions[session_id].state \in FlowStates
             /\ Cardinality(PrefixesOf(sessions[session_id].state)) = 1
    /\ (IsCall /\ ~IsHandoffQuery) =>
          /\ PrevState # None => /\ TurnHandler \in FlowHandlers
                                 /\ StartsWith(PrevState, PrefixOf(TurnHandler))
          /\ TurnHandler \in FlowHandlers =>
                /\ PrevState \in Recognized(TurnHandler)
                /\ \/ sessions[Sid].state = None
                   \/ StartsWith(sessions[Sid].state, PrefixOf(TurnHandler))
                /\ result.type \in {"transaction", "raised"}
          /\ result # demo_fallback
          /\ result.type \notin {"error", "returned_none"}

\* C27 witness: a turn dispatched on the prefix of an active career session
\* wrote the next career tag
C27_Witness ==
    /\ IsCall
    /\ PrevState = "career_awaiting_name"
    /\ TurnHandler = "handle_career_flow"
    /\ sessions[Sid].state = "career_awaiting_email"
    /\ result.type = "transaction"


\* the key under which the step waiting in the given state stores its answer
StepKey(state) ==
    CASE state \in {"demo_awaiting_industry", "demo_awaiting_custom_industry"} -> "industry"
      [] state \in {"demo_awaiting_name", "career_awaiting_name",
                    "contact_awaiting_name"} -> "name"
      [] state \in {"demo_awaiting_email", "career_awaiting_email",
                    "rfp_awaiting_contact"} -> "email"
      [] state = "demo_awaiting_phone" -> "phone"
      [] state \in {"demo_awaiting_referral", "demo_awaiting_custom_referral"} ->
            "referral_source"
      [] state = "demo_awaiting_date" -> "preferred_date"
      [] state = "career_awaiting_position" -> "position"
      [] state = "rfp_awaiting_company" -> "company"
      [] state = "rfp_awaiting_brief" -> "brief"
      [] state = "contact_awaiting_method" -> "method"

\* the data a completion returns
CompletionData(r) ==
    CASE "demo_data" \in DOMAIN r -> r.demo_data
      [] "career_data" \in DOMAIN r -> r.career_data
      [] "rfp_data" \in DOMAIN r -> r.rfp_data
      [] "contact_data" \in DOMAIN r -> r.contact_data

\* C28: every step of every flow stores the answer under the step's key, and
\* the data returned with a completion holds every answer given in the flow,
\* the answer of the final step (preferred_date, position, brief, contact
\* method) included.
C28_EveryAnswerStored ==
    (IsCall /\ ~IsHandoffQuery /\ PrevState \in FlowStates) =>
        /\ (result.type = "transaction" /\ ~Completed(result) /\ ~ErrorFlagged(result)
            /\ sessions[Sid].state \notin {"demo_awaiting_custom_industry",
                                           "demo_awaiting_custom_referral"}) =>
              sessions[Sid].data = DictSet(PrevData, StepKey(PrevState), Strip(turn.query))
        /\ Completed(result) =>
              /\ \A key \in DOMAIN PrevData : CompletionData(result)[key] = PrevData[key]
              /\ \E key \in DOMAIN CompletionData(result) :
                    /\ key \notin DOMAIN PrevData
                    /\ CompletionData(result)[key] \in
                          {Strip(turn.query), Lower(Strip(turn.query))}

\* the part of C28 that holds: the steps before the last one store their
\* answer, and the demo completion returns the date with the other answers
C28_StepsAndDemoStore ==
    (IsCall /\ ~IsHandoffQuery /\ PrevState \in FlowStates) =>
        /\ (result.type = "transaction" /\ ~Completed(result) /\ ~ErrorFlagged(result)
            /\ sessions[Sid].state \notin {"demo_awaiting_custom_industry",
                                           "demo_awaiting_custom_referral"}) =>
              sessions[Sid].data = DictSet(PrevData, StepKey(PrevState), Strip(turn.query))
        /\ (Completed(result) /\ PrevState = "demo_awaiting_date") =>
              result.demo_data = DictSet(PrevData, "preferred_date", Strip(turn.query))


\* the fixed order of the intents
IntentOrder == <<"request_demo", "request_career", "upload_rfp", "request_contact">>

\* the positions in IntentOrder of the intents with a pattern found in the query
MatchingIntents(query) ==
    {k \in 1..Len(IntentOrder) :
        \E entry \in {transactional_patterns[j] : j \in 1..Len(transactional_patterns)} :
            /\ entry.intent = IntentOrder[k]
            /\ \E p \in 1..Len(entry.patterns) :
                  ReSearch(entry.patterns[p], Strip(Lower(query)))}

\* C29: intent detection returns the first intent, in the order demo, career,
\* rfp, contact, that has a matching pattern, and none when no pattern of any
\* intent matches; a message matching two intents starts the earlier flow.
C29_FirstIntentWins ==
    IsCall =>
        /\ MatchingIntents(turn.query) = {} => TurnIntent = None
        /\ \A k \in MatchingIntents(turn.query) :
              (\A j \in MatchingIntents(turn.query) : k <= j) =>
                  /\ TurnIntent = IntentOrder[k]
                  /\ (~IsHandoffQuery /\ PrevState = None) =>
                        /\ result.type \in {"transaction"}
                        /\ sessions[Sid].state = FirstAwaiting(IntentOrder[k])

\* C29 witness: a message with a demo pattern and an rfp pattern starts the
\* demo flow
C29_Witness ==
    /\ IsCall
    /\ PrevState = None
    /\ Cardinality(MatchingIntents(turn.query)) = 2
    /\ TurnIntent = "request_demo"
    /\ result.type = "transaction"
    /\ result.flow = "demo"
    /\ sessions[Sid].state = "demo_awaiting_industry"


\* the topics that add buttons
ButtonTopics == {TopicOrder[k] : k \in 1..Len(TopicOrder)}

\* C30: the enricher returns the three general buttons (services, demo,
\* contact) exactly when no button-bearing topic matched, which includes the
\* case where only the 'technical' topic matched; it never returns an empty
\* button list.
C30_DefaultButtons ==
    IsEnriched =>
        /\ result.rich_payload.buttons = default_buttons
              <=> MatchedTopics \cap ButtonTopics = {}
        /\ result.rich_payload.buttons # <<>>
        /\ Len(default_buttons) = 3

\* C30 witness: only the 'technical' topic matched and the general buttons
\* are returned
C30_Witness ==
    /\ IsEnriched
    /\ MatchedTopics = {"technical"}
    /\ result.rich_payload.buttons = default_buttons
    /\ result.rich_payload.buttons[1].label = "View Services"


\* the result of the turn carries a ticket id
HasTicket == "ticket_id" \in DOMAIN result

\* C31: ticket ids are unique: no two persisted leads, and so no two
\* completions or handoffs, carry the same ticket id, and every ticket id is
\* an 8-character token.
C31_TicketIdsUnique ==
    /\ \A i, j \in 1..Len(leads) : i # j => leads[i].ticket_id # leads[j].ticket_id
    /\ (IsCall /\ HasTicket) =>
          /\ result.ticket_id \in TicketIds
          /\ \A i \in 1..Len(leads) :
                leads[i].ticket_id = result.ticket_id => i = Len(leads)

\* the part of C31 that holds: every ticket id handed out or persisted is one
\* of the 8-character tokens
C31_TicketIdIsToken ==
    /\ \A i \in 1..Len(leads) : leads[i].ticket_id \in TicketIds
    /\ (IsCall /\ HasTicket) => result.ticket_id \in TicketIds


\* C32: a session that is idle has no fields; so a flow starts with no fields,
\* the fields of a session inside a flow are answers to steps of that flow, and
\* the data of a completion holds only the answers of the steps of that flow,
\* nothing left over from an earlier completed or escalated one.
C32_IdleMeansEmpty ==
    /\ \A session_id \in DOMAIN sessions :
          /\ sessions[session_id].state = None =>
                sessions[session_id].data = EmptyDict
          /\ sessions[session_id].state # None =>
                DOMAIN sessions[session_id].data \subseteq
                    KeysAt(sessions[session_id].state)
                        \cup {StepKey(sessions[session_id].state)}
    /\ (IsCall /\ ~IsHandoffQuery /\ PrevState = None /\ result.type = "transaction") =>
          sessions[Sid].data = EmptyDict
    /\ (IsCall /\ Completed(result)) =>
          /\ DOMAIN CompletionData(result) \subseteq
                KeysAt(PrevState) \cup {StepKey(PrevState)}
          /\ \A key \in DOMAIN PrevData : CompletionData(result)[key] = PrevData[key]

\* C32 witness: after a demo request was completed and persisted, the same
\* session starts a contact flow with no fields
C32_Witness ==
    /\ IsCall
    /\ HadSession
    /\ PrevState = None
    /\ Len(leads) >= 1
    /\ leads[1].type = "DEMO_REQUEST"
    /\ sessions[Sid].state = "contact_awaiting_name"
    /\ sessions[Sid].data = EmptyDict


\* C33: a session inside a flow leaves it only by completing it or by a
\* handoff: any other message, 'cancel' and the intents of other flows
\* included, is taken as the answer to the current step, so the session stays
\* in the same flow, in the same state or a successor of it, or completes.
C33_OnlyCompletionOrHandoffLeaves ==
    (IsCall /\ ~IsHandoffQuery /\ PrevState # None) =>
        /\ result.type \in {"transaction", "raised"}
        /\ sessions[Sid].state = None =>
              /\ Completed(result)
              /\ None \in StepSuccessors(PrevState)
        /\ sessions[Sid].state # None =>
              /\ FlowOf(sessions[Sid].state) = FlowOf(PrevState)
              /\ sessions[Sid].state \in StepSuccessors(PrevState) \cup {PrevState}
        /\ (sessions[Sid].state \in StepSuccessors(PrevState) \ {None}
            /\ ~IsOther(Strip(turn.query))) =>
              sessions[Sid].data = DictSet(PrevData, StepKey(PrevState), Strip(turn.query))

\* C33 witness: 'Cancel' sent to a session waiting for the applicant's name is
\* stored as the name and the career flow goes on
C33_Witness ==
    /\ IsCall
    /\ PrevState = "career_awaiting_name"
    /\ turn.query = <<"Cancel">>
    /\ sessions[Sid].state = "career_awaiting_email"
    /\ sessions[Sid].data["name"] = <<"Cancel">>

\* a message with the demo intent sent inside the career flow is an answer too
C33_WitnessIntent ==
    /\ IsCall
    /\ PrevState = "career_awaiting_name"
    /\ TurnIntent = "request_demo"
    /\ sessions[Sid].state = "career_awaiting_email"
    /\ sessions[Sid].data["name"] = qDemo


\* the most accepted answers a session in the given state still takes before
\* it is idle again
Remaining(state) ==
    CASE state = None -> 0
      [] state = "demo_awaiting_industry" -> 8
      [] state = "demo_awaiting_custom_industry" -> 7
      [] state = "demo_awaiting_name" -> 6
      [] state = "demo_awaiting_email" -> 5
      [] state = "demo_awaiting_phone" -> 4
      [] state = "demo_awaiting_referral" -> 3
      [] state = "demo_awaiting_custom_referral" -> 2
      [] state = "demo_awaiting_date" -> 1
      [] state \in {"career_awaiting_name", "rfp_awaiting_company"} -> 3
      [] state \in {"career_awaiting_email", "rfp_awaiting_contact"} -> 2
      [] state \in {"career_awaiting_position", "rfp_awaiting_brief"} -> 1
      [] state = "contact_awaiting_name" -> 2
      [] state = "contact_awaiting_method" -> 1

\* every accepted answer brings the session nearer to idle: by one step in the
\* career, RFP and contact flows, by one or two in the demo flow
Progress ==
    /\ Remaining(sessions[Sid].state) < Remaining(PrevState)
    /\ FlowOf(PrevState) # "demo" =>
          Remaining(sessions[Sid].state) = Remaining(PrevState) - 1

\* C34: every flow terminates under accepted inputs: a started demo flow is
\* idle again after at most 8 further turns that are neither handoffs nor
\* rejected e-mails, a career or RFP flow after exactly 3, a contact flow after
\* exactly 2, and no state is revisited except demo_awaiting_email on a
\* rejected e-mail.
C34_FlowsTerminate ==
    (IsCall /\ ~IsHandoffQuery /\ TurnHandler \in FlowHandlers) =>
        /\ PrevState = None =>
              Remaining(sessions[Sid].state) =
                  (CASE TurnHandler = "handle_demo_flow" -> 8
                     [] TurnHandler = "handle_contact_flow" -> 2
                     [] OTHER -> 3)
        /\ (PrevState # None /\ ~ErrorFlagged(result)) => Progress
        /\ (PrevState # None /\ ErrorFlagged(result)) =>
              /\ PrevState = "demo_awaiting_email"
              /\ sessions[Sid].state = PrevState

\* the part of C34 that holds: the demo and contact flows, and the career and
\* RFP flows when no lead is persisted
C34_TerminatesWithoutPersisting ==
    (IsCall /\ ~IsHandoffQuery /\ PrevState # None /\ ~ErrorFlagged(result)
        /\ (FlowOf(PrevState) \in {"demo", "contact"} \/ ~DATABASE_ENABLED)) => Progress


\* C35: the result of a turn carries a ticket id exactly when the turn is a
\* handoff or a flow response marked completed; after such a turn the session
\* is idle with no fields, and after every other turn of type 'transaction'
\* the session is in a non-idle state of the flow the result names.
C35_TicketIffTerminal ==
    IsCall =>
        /\ HasTicket <=> (result.type = "handoff" \/ Completed(result))
        /\ HasTicket =>
              /\ StateOf(sessions, Sid) = None
              /\ Sid \in DOMAIN sessions => sessions[Sid].data = EmptyDict
        /\ (result.type = "transaction" /\ ~HasTicket) =>
              /\ Sid \in DOMAIN sessions
              /\ sessions[Sid].state # None
              /\ FlowOf(sessions[Sid].state) = result.flow

\* C35 witness: the last answer of the contact flow is answered with a ticket
\* id and the session, which held the name, is idle and empty
C35_Witness ==
    /\ IsCall
    /\ PrevState = "contact_awaiting_method"
    /\ PrevData # EmptyDict
    /\ Completed(result)
    /\ HasTicket
    /\ sessions[Sid].state = None
    /\ sessions[Sid].data = EmptyDict


\* C36: a turn that is not a terminal transition persists no lead: the start
\* of a flow, an intermediate step, an 'Other' detour, a rejected e-mail and a
\* knowledge answer hand nothing to save_lead and leave the leads as they were.
C36_NonTerminalPersistsNothing ==
    (IsCall /\ result.type \in {"transaction", "knowledge"} /\ ~HasTicket) =>
        /\ saved = <<>>
        /\ leads = turn.before

\* C36 witness: an e-mail rejected while a lead of an earlier handoff is in
\* the table leaves the table as it was
C36_Witness ==
    /\ IsCall
    /\ ErrorFlagged(result)
    /\ Len(leads) >= 1
    /\ leads = turn.before
    /\ saved = <<>>


\* C37: the enricher never returns the same button twice: whatever topics
\* matched, the labels of the returned buttons are pairwise distinct.
C37_DistinctButtons ==
    IsEnriched =>
        \A i, j \in 1..Len(result.rich_payload.buttons) :
            i # j => result.rich_payload.buttons[i].label
                        # result.rich_payload.buttons[j].label

\* the part of C37 that holds: when a single button-bearing topic matched, or
\* none, the labels are pairwise distinct
C37_DistinctWithinTopic ==
    (IsEnriched /\ Cardinality(MatchedTopics \cap ButtonTopics) <= 1) =>
        \A i, j \in 1..Len(result.rich_payload.buttons) :
            i # j => result.rich_payload.buttons[i].label
                        # result.rich_payload.buttons[j].label


IsChat == turn.op = "chat"

\* C38: the boundary issues the session ids: the chat endpoint works under the
\* supplied id only if that id is in chat_sessions; with no id, an unknown id
\* or the id of a deleted chat session it works under a fresh id with an empty
\* history, so the orchestrator state kept under the supplied id is neither
\* read nor changed and the message is handled as the first of a new session.
C38_BoundaryIssuesIds ==
    IsChat =>
        /\ Sid = turn.supplied <=> turn.supplied \in DOMAIN turn.chats
        /\ turn.supplied \notin DOMAIN turn.chats =>
              /\ Sid \notin DOMAIN turn.chats
              /\ Sid \notin DOMAIN prev
              /\ Sid \in DOMAIN chat_sessions
              /\ \A i \in 1..Len(chat_sessions[Sid].messages) :
                    chat_sessions[Sid].messages[i].content
                        \in {turn.query} \cup (IF result.type = "ChatResponse"
                                               THEN {result.response} ELSE {})
              /\ Len(chat_sessions[Sid].messages) <= 2
              /\ \A session_id \in DOMAIN prev : sessions[session_id] = prev[session_id]
              /\ result.type = "ChatResponse" => result.session_id = Sid

\* C38 witness: a message carrying the id of a deleted chat session, under
\* which the orchestrator still holds a demo flow waiting for the industry, is
\* answered under another id and leaves that flow where it was
C38_Witness ==
    /\ IsChat
    /\ turn.supplied \in uuids
    /\ turn.supplied \notin DOMAIN turn.chats
    /\ turn.supplied \in DOMAIN prev
    /\ prev[turn.supplied].state = "demo_awaiting_industry"
    /\ turn.query = <<"Finance">>
    /\ Sid # turn.supplied
    /\ sessions[turn.supplied].state = "demo_awaiting_industry"
    /\ result.type = "ChatResponse"
    /\ result.session_id = Sid


C39_WitnessUnknownId ==
    /\ turn.op = "add_to_history"
    /\ turn.session_id = "x1"
    /\ chat_sessions = turn.chats
    /\ Len(chat_sessions["u1"].messages) = 20

=============================================================================
